---- MODULE Spec2Model ----
(***************************************************************************)
(* Model of the ItemDatabase of src/src/models/ItemDatabaseModel.ts: a     *)
(* keyed item store kept in the inventories of host entities, with its     *)
(* in-memory cache (cachedItems), its per-entity index (itemStorageMap)    *)
(* and its entity map (databaseEntities), driven by facade calls and by    *)
(* the host's worldLoad / entityLoad / entityRemove notifications.         *)
(*                                                                         *)
(* Strings are sequences of one-character strings.  A JavaScript Map is a  *)
(* sequence of [k, v] entries in insertion order.                          *)
(***************************************************************************)
EXTENDS Integers, Sequences, FiniteSets, TLC

\* ------------------------------------------------------------------ bounds
\* Number of entity ids the host can hand out before it refuses to spawn.
MaxEntities == 2

\* Number of times the script (and so the ItemDatabase instance) is reloaded.
MaxRestarts == 1

\* Number of callers of EntitiesLoad.subscribe.
MaxSubscribers == 3

\* Number of facade calls and host notifications in one behaviour.
MaxSteps == 4

\* Length of the longest label a stack has before it is given to the codec.
MaxLabel == 4

\* Number of times one stack is labelled by setIdentifierData.
MaxEncodes == 2

\* --------------------------------------------------------------- constants
\* Slots of one database entity (the capacity C of a storage unit).
ENTITY_INVENTORY_SIZE == 2

ITEM_PREFIX == <<"!", "!", ":">>

\* The typeId given to the constructor, and the tag of a foreign store.
typeId == "testItems"

NoTag == "undefined"

\* ----------------------------------------------------------------- strings
RECURSIVE indexOf(_, _, _)
\* Index (from 1) of the first occurrence of sep in s at or after from, or 0.
indexOf(s, sep, from) ==
  IF from + Len(sep) - 1 > Len(s) THEN 0
  ELSE IF SubSeq(s, from, from + Len(sep) - 1) = sep THEN from
  ELSE indexOf(s, sep, from + 1)

includes(s, sep) == indexOf(s, sep, 1) # 0

startsWith(s, sep) ==
  Len(s) >= Len(sep) /\ SubSeq(s, 1, Len(sep)) = sep

RECURSIVE split(_, _)
\* String.prototype.split with a non-empty separator: the pieces in order.
split(s, sep) ==
  LET i == indexOf(s, sep, 1) IN
    IF i = 0 THEN <<s>>
    ELSE <<SubSeq(s, 1, i - 1)>> \o split(SubSeq(s, i + Len(sep), Len(s)), sep)

\* -------------------------------------------------------------------- Maps
RECURSIVE MapIndex(_, _, _)
MapIndex(m, key, i) ==
  IF i > Len(m) THEN 0
  ELSE IF m[i].k = key THEN i
  ELSE MapIndex(m, key, i + 1)

MapHas(m, key) == MapIndex(m, key, 1) # 0

MapGet(m, key) == m[MapIndex(m, key, 1)].v

\* A Map.set that always adds an entry.
MapSetAppend(m, key, val) == Append(m, [k |-> key, v |-> val])

\* Map.prototype.set: replaces the value of an existing key in place.
MapSet(m, key, val) ==
  LET i == MapIndex(m, key, 1) IN
    IF i = 0 THEN Append(m, [k |-> key, v |-> val])
    ELSE [m EXCEPT ![i] = [k |-> key, v |-> val]]

MapDelete(m, key) ==
  LET i == MapIndex(m, key, 1) IN
    IF i = 0 THEN m
    ELSE SubSeq(m, 1, i - 1) \o SubSeq(m, i + 1, Len(m))

MapKeys(m) == [i \in 1..Len(m) |-> m[i].k]

MapValues(m) == [i \in 1..Len(m) |-> m[i].v]

\* --------------------------------------------------------- items and host
\* An ItemStack: its content (typeId) and its free-form label (nameTag).
\* An unset nameTag reads as the empty string.
ItemStack(t, n) == [typeId |-> t, nameTag |-> n]

\* An empty inventory slot (getItem returns undefined).
NoItem == [typeId |-> "", nameTag |-> <<>>]

EntityIds == 1..MaxEntities

EmptySlots == [i \in 1..ENTITY_INVENTORY_SIZE |-> NoItem]

\* A host entity that was never spawned.
NoEntity == [st |-> "none", tag |-> NoTag, inv |-> TRUE, slots |-> EmptySlots]

\* Record ids the callers use.
Ids == {<<"a">>, <<"b">>, <<"c">>}

\* A stack in a database entity that no ItemDatabase put there.
Stray == ItemStack("egg", <<>>)

\* What the host does with a spawnEntity call: it throws, it creates an
\* entity with an empty inventory, one without a valid inventory component,
\* or one whose first slot is taken.
Spawns == {"refused", "empty", "noInventory", "occupied"}

\* The classes of host calls that can throw: writing a stack's nameTag,
\* getting a component or its container, reading a slot, writing a slot,
\* removing an entity.
Faults == {"none", "label", "lookup", "read", "write", "remove"}

\* Records the callers hand to setItem: one with a plain label and one whose
\* label already carries a store wrapper (as the stacks of getAllItems do).
Records ==
  { ItemStack("dirt", <<"x">>),
    ItemStack("stone", ITEM_PREFIX \o <<"b">> \o ITEM_PREFIX \o <<"x">>) }

\* ------------------------------------------------------------------- state
VARIABLES
  host,              \* entity id -> [st, tag, inv, slots]: the host world
  databaseEntities,  \* Map entity id -> Entity (sequence of the ids held)
  cachedItems,       \* Map item id -> ItemStack
  itemStorageMap,    \* Map entity id -> sequence of item ids
  worldLoaded,       \* the worldLoad notification was delivered to this instance
  call,              \* the setItem call suspended in system.waitTicks, if any
  last,              \* the operation or notification completed last, with its result
  stored,            \* history: what successful setItem calls stored, or Void
  gen,               \* number of script reloads so far
  steps,             \* number of steps taken so far
  other,             \* the maps and the suspended call of a second ItemDatabase
  held,              \* the stack a read handed to the caller, and what it aliases
  entitiesLoad,      \* the state of the EntitiesLoadEvent module
  arrayStore,        \* an ItemDatabase of the array-cache model
  second,            \* a second setItem call suspended in system.waitTicks, if any
  codec              \* a stack passing through the label codec, and what was read off it

vars == <<host, databaseEntities, cachedItems, itemStorageMap, worldLoaded,
          call, last, stored, gen, steps, other, held, entitiesLoad,
          arrayStore, second, codec>>

\* The store's three maps and the host, threaded through the handlers.
State == [host |-> host, databaseEntities |-> databaseEntities,
          cachedItems |-> cachedItems, itemStorageMap |-> itemStorageMap]

Idle == [op |-> "idle"]

\* A second ItemDatabase that has nothing registered.
NoStore == [databaseEntities |-> <<>>, cachedItems |-> <<>>,
            itemStorageMap |-> <<>>, call |-> Idle]

\* The caller holds no stack.
NoHeld == [item |-> NoItem, ref |-> <<>>, id |-> <<>>, by |-> "none"]

Void == <<[k |-> <<>>, v |-> NoItem]>>

\* The callers of EntitiesLoad.subscribe, each with a callback of its own.
Subscribers == 1..MaxSubscribers

\* The EntitiesLoadEvent module as loaded: entities not loaded, no callback,
\* worldLoad not delivered yet and no entityLoad subscription.  For each
\* subscriber: how often its callback ran, the key subscribe returned (-1
\* before), whether it subscribed before the entities were loaded, and
\* whether it unsubscribed with its key.
NoEvents == [ENTITIES_LOADED |-> FALSE, CALLBACKS |-> <<>>,
             started |-> FALSE, listening |-> FALSE,
             invoked |-> [s \in Subscribers |-> 0],
             key |-> [s \in Subscribers |-> -1],
             early |-> [s \in Subscribers |-> FALSE],
             removed |-> [s \in Subscribers |-> FALSE]]

\* An array-cache ItemDatabase as constructed: both arrays undefined (<<>>,
\* where <<array>> is a defined one), no call suspended, and the callback
\* that fetches the entities subscribed.
NoArrayStore == [databaseEntities |-> <<>>, cachedItems |-> <<>>,
                 call |-> Idle, fetch |-> [op |-> "subscribed"]]

\* No stack is passing through the codec.
NoCodec == [op |-> "none"]

\* ------------------------------------------------------------- label codec
\* A setIdentifierData that keeps the previous label whatever it contains.
setIdentifierDataNested(itemStack, id) ==
  [itemStack EXCEPT
     !.nameTag = ITEM_PREFIX \o id \o ITEM_PREFIX \o itemStack.nameTag]

\* setIdentifierData: the label written on the stack stored under id.
setIdentifierData(itemStack, id) ==
  LET previousNameTag ==
        IF includes(itemStack.nameTag, ITEM_PREFIX) THEN <<>>
        ELSE itemStack.nameTag
  IN [itemStack EXCEPT
        !.nameTag = ITEM_PREFIX \o id \o ITEM_PREFIX \o previousNameTag]

\* A getItemId that takes the piece before the first prefix.
getItemIdFirstPiece(itemStack) ==
  LET itemName == itemStack.nameTag IN
    IF itemName = <<>> \/ ~startsWith(itemName, ITEM_PREFIX) THEN <<>>
    ELSE <<split(itemName, ITEM_PREFIX)[1]>>

\* getItemId: <<id>> when the label decodes, <<>> for undefined.
getItemId(itemStack) ==
  LET itemName == itemStack.nameTag IN
    IF itemName = <<>> \/ ~startsWith(itemName, ITEM_PREFIX) THEN <<>>
    ELSE <<split(itemName, ITEM_PREFIX)[2]>>

\* The test `!itemId` of the callers of getItemId: undefined or "".
NoId(itemId) == itemId = <<>> \/ itemId[1] = <<>>

\* A getItem that hands out the cached stack with its wrapper still on.
strippedNot(item) == item

\* The stack getItem hands out for a cached stack: a clone with the wrapper
\* stripped from its label.
stripped(item) ==
  LET parts == split(item.nameTag, ITEM_PREFIX) IN
    [item EXCEPT !.nameTag = IF Len(parts) >= 3 THEN parts[3] ELSE <<>>]

\* getItem: <<stack>> when found, <<>> for undefined.  Every cached stack
\* was labelled by setIdentifierData or decoded by getItemId, so the
\* assertion on its nameTag holds.
getItem(cache, id) ==
  IF ~MapHas(cache, id) THEN <<>>
  ELSE <<stripped(MapGet(cache, id))>>

getAllItemIds(cache) == MapKeys(cache)

getAllItems(cache) == MapValues(cache)

\* ------------------------------------------------------------ host queries
isValid(h, e) == h[e].st = "loaded"

\* entity.getComponent("inventory") exists and it and its container are valid.
hasContainer(h, e) == isValid(h, e) /\ h[e].inv

RECURSIVE firstEmptySlotFrom(_, _)
firstEmptySlotFrom(slots, i) ==
  IF i > Len(slots) THEN 0
  ELSE IF slots[i] = NoItem THEN i
  ELSE firstEmptySlotFrom(slots, i + 1)

\* Container.firstEmptySlot: slot number from 1, or 0 for undefined.
firstEmptySlot(slots) == firstEmptySlotFrom(slots, 1)

\* An isDatabaseEntity that does not look at the tag.
isDatabaseEntityAnyTag(h, e) == isValid(h, e)

isDatabaseEntity(h, e) == isValid(h, e) /\ h[e].tag = typeId

SeqHas(s, x) == \E i \in 1..Len(s) : s[i] = x

RECURSIVE SeqWithout(_, _)
SeqWithout(s, x) ==
  IF s = <<>> THEN <<>>
  ELSE IF Head(s) = x THEN SeqWithout(Tail(s), x)
  ELSE <<Head(s)>> \o SeqWithout(Tail(s), x)

getEntityItemIds(S, e) ==
  IF ~SeqHas(S.databaseEntities, e) THEN <<>>
  ELSE IF MapHas(S.itemStorageMap, e) THEN MapGet(S.itemStorageMap, e)
  ELSE <<>>

\* ------------------------------------------------------ registerEntityItems
RECURSIVE scanSlots(_, _, _, _)
\* The slot loop of registerEntityItems from slot i on: the cache and the id
\* list after it.  A stack whose label does not decode is skipped.
scanSlots(slots, i, cache, ids) ==
  IF i > Len(slots) THEN [cachedItems |-> cache, ids |-> ids]
  ELSE IF slots[i] = NoItem THEN scanSlots(slots, i + 1, cache, ids)
  ELSE LET itemId == getItemId(slots[i]) IN
    IF NoId(itemId) THEN scanSlots(slots, i + 1, cache, ids)
    ELSE scanSlots(slots, i + 1, MapSet(cache, itemId[1], slots[i]),
                   Append(ids, itemId[1]))

\* registerEntityItems without its assertion: the scan appends to the ids
\* the entity already has registered.
registerEntityItemsNoAssert(S, e) ==
  IF ~hasContainer(S.host, e) THEN [S |-> S, threw |-> FALSE]
  ELSE LET scan == scanSlots(S.host[e].slots, 1, S.cachedItems,
                             getEntityItemIds(S, e))
       IN [S |-> [S EXCEPT !.cachedItems = scan.cachedItems,
                           !.itemStorageMap = MapSet(@, e, scan.ids)],
           threw |-> FALSE]

\* registerEntityItems: the state after it, and whether its assertion threw.
registerEntityItems(S, e) ==
  IF ~hasContainer(S.host, e) THEN [S |-> S, threw |-> FALSE]
  ELSE IF Len(getEntityItemIds(S, e)) # 0 THEN [S |-> S, threw |-> TRUE]
  ELSE LET scan == scanSlots(S.host[e].slots, 1, S.cachedItems, <<>>)
       IN [S |-> [S EXCEPT !.cachedItems = scan.cachedItems,
                           !.itemStorageMap = MapSet(@, e, scan.ids)],
           threw |-> FALSE]

\* ---------------------------------------------------------------- removeItem
RECURSIVE findEntityWithItem(_, _, _)
\* Index in itemStorageMap of the first entity whose list includes id, or 0.
findEntityWithItem(ism, id, i) ==
  IF i > Len(ism) THEN 0
  ELSE IF SeqHas(ism[i].v, id) THEN i
  ELSE findEntityWithItem(ism, id, i + 1)

RECURSIVE findSlotOf(_, _, _)
\* The first slot whose stack decodes to id, or 0.
findSlotOf(slots, id, i) ==
  IF i > Len(slots) THEN 0
  ELSE IF slots[i] # NoItem /\ getItemId(slots[i]) = <<id>> /\ id # <<>> THEN i
  ELSE findSlotOf(slots, id, i + 1)

\* A removeItemFromCache that leaves cachedItems as it is.
removeItemFromCacheIndexOnly(S, entityId, itemIds, id) ==
  [S EXCEPT !.itemStorageMap = MapSet(@, entityId, SeqWithout(itemIds, id))]

\* removeItemFromCache of removeItem.
removeItemFromCache(S, entityId, itemIds, id) ==
  [S EXCEPT !.cachedItems = MapDelete(@, id),
            !.itemStorageMap = MapSet(@, entityId, SeqWithout(itemIds, id))]

\* removeItem: the state after it, the boolean it resolves to, whether it
\* raised instead, and whether the host call of class fault was reached (the
\* first host call of that class made by the operation throws).
removeItem(S, id, fault) ==
  LET i == findEntityWithItem(S.itemStorageMap, id, 1)
      Ret(T, ret, threw, used) ==
        [S |-> T, ret |-> ret, threw |-> threw, used |-> used]
  IN
    IF i = 0 THEN Ret(S, FALSE, FALSE, FALSE)
    ELSE
      LET entityId == S.itemStorageMap[i].k
          itemIds  == S.itemStorageMap[i].v
          dropped  == removeItemFromCache(S, entityId, itemIds, id)
      IN
        IF ~(SeqHas(S.databaseEntities, entityId) /\ isValid(S.host, entityId))
          THEN Ret(dropped, FALSE, FALSE, FALSE)
        ELSE IF fault = "lookup" THEN Ret(S, FALSE, TRUE, TRUE)
        ELSE IF ~hasContainer(S.host, entityId)
          THEN Ret(dropped, FALSE, FALSE, FALSE)
        ELSE IF fault = "read" THEN Ret(S, FALSE, TRUE, TRUE)
        ELSE
          LET slots == S.host[entityId].slots
              slot  == findSlotOf(slots, id, 1)
              next  == IF slot = 0 THEN 0 ELSE findSlotOf(slots, id, slot + 1)
          IN
            IF slot = 0 THEN Ret(dropped, TRUE, FALSE, FALSE)
            ELSE IF fault # "write"
              THEN Ret([dropped EXCEPT !.host[entityId].slots[slot] = NoItem],
                       TRUE, FALSE, FALSE)
            ELSE IF next = 0 THEN Ret(dropped, TRUE, FALSE, TRUE)
            ELSE Ret([dropped EXCEPT !.host[entityId].slots[next] = NoItem],
                     TRUE, FALSE, TRUE)

\* ------------------------------------------------------------------ setItem
RECURSIVE findEntityWithRoom(_, _, _)
\* The first loop of setItem from entry i of itemStorageMap on: the index of
\* the entry whose entity takes the stack, or 0 when none does.  An entity
\* that is tracked as not full but has no empty slot fails the assertion,
\* which the loop's catch turns into trying the next entity, as it does
\* the host call of class fault that throws.
findEntityWithRoom(S, i, fault) ==
  IF i > Len(S.itemStorageMap) THEN 0
  ELSE
    LET entityId == S.itemStorageMap[i].k IN
      IF Len(getEntityItemIds(S, entityId)) >= ENTITY_INVENTORY_SIZE
        THEN findEntityWithRoom(S, i + 1, fault)
      ELSE IF ~(SeqHas(S.databaseEntities, entityId) /\ isValid(S.host, entityId))
        THEN findEntityWithRoom(S, i + 1, fault)
      ELSE IF fault = "lookup" THEN findEntityWithRoom(S, i + 1, "none")
      ELSE IF ~hasContainer(S.host, entityId)
        THEN findEntityWithRoom(S, i + 1, fault)
      ELSE IF firstEmptySlot(S.host[entityId].slots) = 0
        THEN findEntityWithRoom(S, i + 1, fault)
      ELSE IF fault = "write" THEN findEntityWithRoom(S, i + 1, "none")
      ELSE i

\* A placement that writes the stack into the first slot, empty or not.
placeInEntityFirstSlot(S, i, itemStack, id) ==
  LET entityId == S.itemStorageMap[i].k
  IN [S EXCEPT !.host[entityId].slots[1] = itemStack,
               !.itemStorageMap =
                  MapSet(@, entityId, Append(getEntityItemIds(S, entityId), id))]

\* A placement that writes the stack into the last empty slot.
placeInEntityLastSlot(S, i, itemStack, id) ==
  LET entityId == S.itemStorageMap[i].k
      slots    == S.host[entityId].slots
      slot     == CHOOSE s \in 1..Len(slots) :
                    /\ slots[s] = NoItem
                    /\ \A u \in (s + 1)..Len(slots) : slots[u] # NoItem
  IN [S EXCEPT !.host[entityId].slots[slot] = itemStack,
               !.itemStorageMap =
                  MapSet(@, entityId, Append(getEntityItemIds(S, entityId), id))]

\* The stack written into the first empty slot of the entity at entry i.
placeInEntity(S, i, itemStack, id) ==
  LET entityId == S.itemStorageMap[i].k
      slot     == firstEmptySlot(S.host[entityId].slots)
  IN [S EXCEPT !.host[entityId].slots[slot] = itemStack,
               !.itemStorageMap =
                  MapSet(@, entityId, Append(getEntityItemIds(S, entityId), id))]

\* The smallest entity id the host has not handed out yet, or 0.
freshEntity(h) ==
  IF \E e \in EntityIds : h[e].st = "none"
    THEN CHOOSE e \in EntityIds :
           h[e].st = "none" /\ \A f \in EntityIds : h[f].st = "none" => e <= f
    ELSE 0

\* databaseEntities.set(entity.id, entity)
entitiesSet(d, e) == IF SeqHas(d, e) THEN d ELSE Append(d, e)

\* What `last` records of a completed operation or notification.
Done(op, id, item, ret, ent, old, fresh) ==
  [op |-> op, id |-> id, item |-> item, ret |-> ret, ent |-> ent,
   replaced |-> old # <<>>, old |-> old, fresh |-> fresh]

Note(op, ent, ret) == Done(op, <<>>, NoItem, ret, ent, <<>>, FALSE)

PrefixFree(s) == ~includes(s, ITEM_PREFIX)

\* The history of successful setItem calls after one more: it stays defined
\* only while the ids are new, distinct and free of the prefix.
storedAfterSet(id, item, replaced) ==
  IF stored = Void \/ replaced \/ MapHas(stored, id) \/ ~PrefixFree(id)
    THEN Void
    ELSE MapSet(stored, id, item)

\* -------------------------------------------------------------------- Init
\* The worlds an instance is constructed in: no database entity yet, or one
\* entity left by an earlier session of this store, holding a record "a".
InitialHosts ==
  { [e \in EntityIds |-> NoEntity],
    [e \in EntityIds |->
       IF e = 1
         THEN [st |-> "loaded", tag |-> typeId, inv |-> TRUE,
               slots |-> [EmptySlots EXCEPT ![1] =
                  ItemStack("dirt", ITEM_PREFIX \o <<"a">> \o ITEM_PREFIX)]]
         ELSE NoEntity] }

Init ==
  /\ host \in InitialHosts
  /\ databaseEntities = <<>>
  /\ cachedItems = <<>>
  /\ itemStorageMap = <<>>
  /\ worldLoaded = FALSE
  /\ call = Idle
  /\ last = Note("init", 0, "none")
  /\ stored = IF host[1].st = "none" THEN <<>> ELSE Void
  /\ gen = 0
  /\ steps = 0
  /\ other = NoStore
  /\ held = NoHeld
  /\ entitiesLoad = NoEvents
  /\ arrayStore = NoArrayStore
  /\ second = Idle
  /\ codec = NoCodec

\* A behaviour takes at most MaxSteps steps.
Tick == steps < MaxSteps /\ steps' = steps + 1

Install(S) ==
  /\ host' = S.host
  /\ databaseEntities' = S.databaseEntities
  /\ cachedItems' = S.cachedItems
  /\ itemStorageMap' = S.itemStorageMap

\* ----------------------------------------------------------------- setItem
\* setItem up to its return or up to its await of system.waitTicks(10).
\* spawn is what the host does with spawnEntity, fault the class of host call
\* whose first use in this call throws.
SetItem(itemStack, id, spawn, fault) ==
  /\ call = Idle
  /\ Tick
  /\ LET old == getItem(cachedItems, id)
         replaced == old # <<>>
         r1    == IF replaced THEN removeItem(State, id, fault)
                  ELSE [S |-> State, ret |-> FALSE, threw |-> FALSE,
                        used |-> FALSE]
         S1    == r1.S
         left  == IF r1.used THEN "none" ELSE fault
         stack == setIdentifierData(itemStack, id)
         i     == findEntityWithRoom(S1, 1, left)
         e     == freshEntity(S1.host)
         fresh == last.op = "clear"
     IN
       IF r1.threw \/ left = "label" THEN
         /\ Install(S1)
         /\ call' = Idle
         /\ last' = Done("setItem", id, itemStack, "throw", 0, old, fresh)
         /\ stored' = IF replaced THEN Void ELSE stored
       ELSE IF i # 0 THEN
         /\ Install([placeInEntity(S1, i, stack, id) EXCEPT
                       !.cachedItems = MapSet(@, id, stack)])
         /\ call' = Idle
         /\ last' = Done("setItem", id, itemStack, "true",
                         S1.itemStorageMap[i].k, old, fresh)
         /\ stored' = storedAfterSet(id, itemStack, replaced)
       ELSE IF spawn # "refused" /\ e # 0 THEN
         /\ Install([S1 EXCEPT !.host[e] =
                       [st |-> "loaded", tag |-> NoTag,
                        inv |-> spawn # "noInventory",
                        slots |-> IF spawn = "occupied"
                                    THEN [EmptySlots EXCEPT ![1] = Stray]
                                    ELSE EmptySlots]])
         /\ call' = [op |-> "set", id |-> id, item |-> itemStack,
                     stack |-> stack, ent |-> e, replaced |-> replaced,
                     old |-> old, fresh |-> fresh,
                     cachedItems |-> cachedItems,
                     itemStorageMap |-> itemStorageMap]
         /\ last' = Done("spawn", id, itemStack, "none", e, old, fresh)
         /\ stored' = stored
       ELSE
         /\ Install(S1)
         /\ call' = Idle
         /\ last' = Done("setItem", id, itemStack, "false", 0, old, fresh)
         /\ stored' = IF replaced THEN Void ELSE stored
  /\ UNCHANGED <<worldLoaded, gen, other, held,
                 entitiesLoad, arrayStore, second, codec>>

\* A resumed setItem that takes its entity for valid without looking.
SetItemResumeNoRevalidate(fault) ==
  /\ call # Idle
  /\ steps' = steps
  /\ LET e == call.ent
         tagged == [State EXCEPT !.host[e].tag = typeId]
         slot == firstEmptySlot(host[e].slots)
         ok == /\ fault # "lookup"
               /\ host[e].inv
               /\ slot = 1
               /\ fault # "write"
     IN
       /\ IF ~ok THEN Install(tagged)
          ELSE Install([tagged EXCEPT
                 !.host[e].slots[slot] = call.stack,
                 !.databaseEntities = entitiesSet(@, e),
                 !.itemStorageMap = MapSet(@, e, <<call.id>>),
                 !.cachedItems = MapSet(@, call.id, call.stack)])
       /\ last' = Done("setItem", call.id, call.item,
                       IF ok THEN "true" ELSE "false",
                       IF ok THEN e ELSE 0, call.old, call.fresh)
       /\ stored' = IF ok THEN storedAfterSet(call.id, call.item, call.replaced)
                    ELSE IF call.replaced THEN Void ELSE stored
  /\ call' = Idle
  /\ UNCHANGED <<worldLoaded, gen, other, held,
                 entitiesLoad, arrayStore, second, codec>>

\* A setItem whose wait ends only while the entity it spawned is valid.
SetItemResumeWaitsForEntity(fault) ==
  /\ call # Idle
  /\ isValid(host, call.ent)
  /\ steps' = steps
  /\ LET e == call.ent
         tagged == [State EXCEPT !.host[e].tag = typeId]
         slot == firstEmptySlot(host[e].slots)
         ok == /\ fault # "lookup"
               /\ hasContainer(host, e)
               /\ slot = 1
               /\ fault # "write"
     IN
       /\ IF ~ok THEN Install(tagged)
          ELSE Install([tagged EXCEPT
                 !.host[e].slots[slot] = call.stack,
                 !.databaseEntities = entitiesSet(@, e),
                 !.itemStorageMap = MapSet(@, e, <<call.id>>),
                 !.cachedItems = MapSet(@, call.id, call.stack)])
       /\ last' = Done("setItem", call.id, call.item,
                       IF ok THEN "true" ELSE "false",
                       IF ok THEN e ELSE 0, call.old, call.fresh)
       /\ stored' = IF ok THEN storedAfterSet(call.id, call.item, call.replaced)
                    ELSE IF call.replaced THEN Void ELSE stored
  /\ call' = Idle
  /\ UNCHANGED <<worldLoaded, gen, other, held,
                 entitiesLoad, arrayStore, second, codec>>

\* A resumed setItem that caches the stack whether or not it was placed.
SetItemResumeCachesUnplaced(fault) ==
  /\ call # Idle
  /\ steps' = steps
  /\ LET e == call.ent
         tagged == [State EXCEPT !.host[e].tag = typeId]
         slot == firstEmptySlot(host[e].slots)
         ok == /\ isValid(host, e)
               /\ fault # "lookup"
               /\ hasContainer(host, e)
               /\ slot = 1
               /\ fault # "write"
         cached == MapSet(cachedItems, call.id, call.stack)
     IN
       /\ IF ~isValid(host, e) THEN Install([State EXCEPT !.cachedItems = cached])
          ELSE IF ~ok THEN Install([tagged EXCEPT !.cachedItems = cached])
          ELSE Install([tagged EXCEPT
                 !.host[e].slots[slot] = call.stack,
                 !.databaseEntities = entitiesSet(@, e),
                 !.itemStorageMap = MapSet(@, e, <<call.id>>),
                 !.cachedItems = cached])
       /\ last' = Done("setItem", call.id, call.item,
                       IF ok THEN "true" ELSE "false",
                       IF ok THEN e ELSE 0, call.old, call.fresh)
       /\ stored' = IF ok THEN storedAfterSet(call.id, call.item, call.replaced)
                    ELSE IF call.replaced THEN Void ELSE stored
  /\ call' = Idle
  /\ UNCHANGED <<worldLoaded, gen, other, held,
                 entitiesLoad, arrayStore, second, codec>>

\* setItem from the end of its wait to its return: the second half of a
\* facade call, which MaxSteps counted when the call was issued.
SetItemResume(fault) ==
  /\ call # Idle
  /\ steps' = steps
  /\ LET e == call.ent
         tagged == [State EXCEPT !.host[e].tag = typeId]
         slot == firstEmptySlot(host[e].slots)
         ok == /\ isValid(host, e)
               /\ fault # "lookup"
               /\ hasContainer(host, e)
               /\ slot = 1
               /\ fault # "write"
     IN
       /\ IF ~isValid(host, e) THEN Install(State)
          ELSE IF ~ok THEN Install(tagged)
          ELSE Install([tagged EXCEPT
                 !.host[e].slots[slot] = call.stack,
                 !.databaseEntities = entitiesSet(@, e),
                 !.itemStorageMap = MapSet(@, e, <<call.id>>),
                 !.cachedItems = MapSet(@, call.id, call.stack)])
       /\ last' = Done("setItem", call.id, call.item,
                       IF ok THEN "true" ELSE "false",
                       IF ok THEN e ELSE 0, call.old, call.fresh)
       /\ stored' = IF ok THEN storedAfterSet(call.id, call.item, call.replaced)
                    ELSE IF call.replaced THEN Void ELSE stored
  /\ call' = Idle
  /\ UNCHANGED <<worldLoaded, gen, other, held,
                 entitiesLoad, arrayStore, second, codec>>

\* -------------------------------------------------------------- removeItem
RemoveItem(id, fault) ==
  /\ call = Idle
  /\ Tick
  /\ LET r == removeItem(State, id, fault) IN
       /\ Install(r.S)
       /\ last' = Done("removeItem", id, NoItem,
                       IF r.threw THEN "throw"
                       ELSE IF r.ret THEN "true" ELSE "false", 0, <<>>, FALSE)
  /\ stored' = Void
  /\ UNCHANGED <<worldLoaded, call, gen, other, held,
                 entitiesLoad, arrayStore, second, codec>>

\* ------------------------------------------------------------------- clear
RECURSIVE removeEntities(_, _, _, _)
\* The loop of clear: entity.remove() on every entity that is still valid,
\* up to the remove() that throws.
removeEntities(h, d, i, fault) ==
  IF i > Len(d) THEN h
  ELSE IF ~isValid(h, d[i]) THEN removeEntities(h, d, i + 1, fault)
  ELSE IF fault = "remove" THEN h
  ELSE removeEntities([h EXCEPT ![d[i]].st = "dead"], d, i + 1, fault)

\* A clear that leaves itemStorageMap as it is.
ClearKeepsIndex(fault) ==
  /\ call = Idle
  /\ Tick
  /\ host' = removeEntities(host, databaseEntities, 1, fault)
  /\ databaseEntities' = <<>>
  /\ cachedItems' = <<>>
  /\ last' = Note("clear", 0, "none")
  /\ stored' = Void
  /\ UNCHANGED <<itemStorageMap, worldLoaded, call, gen, other, held,
                 entitiesLoad, arrayStore, second, codec>>

Clear(fault) ==
  /\ call = Idle
  /\ Tick
  /\ host' = removeEntities(host, databaseEntities, 1, fault)
  /\ databaseEntities' = <<>>
  /\ cachedItems' = <<>>
  /\ itemStorageMap' = <<>>
  /\ last' = Note("clear", 0, "none")
  /\ stored' = Void
  /\ UNCHANGED <<worldLoaded, call, gen, other, held,
                 entitiesLoad, arrayStore, second, codec>>

\* --------------------------------------------------- lifecycle notifications
RECURSIVE worldLoadFrom(_, _)
\* The loop of the worldLoad handler over the loaded entities from e on.  An
\* assertion failure of registerEntityItems ends the loop in the catch.
worldLoadFrom(S, e) ==
  IF e > MaxEntities THEN S
  ELSE IF ~isDatabaseEntity(S.host, e) THEN worldLoadFrom(S, e + 1)
  ELSE IF SeqHas(S.databaseEntities, e) THEN worldLoadFrom(S, e + 1)
  ELSE
    LET r == registerEntityItems(
               [S EXCEPT !.databaseEntities = entitiesSet(@, e)], e)
    IN IF r.threw THEN r.S ELSE worldLoadFrom(r.S, e + 1)

\* The host's worldLoad notification (environment ready), once per instance.
WorldLoad ==
  /\ ~worldLoaded
  /\ Tick
  /\ worldLoaded' = TRUE
  /\ Install(worldLoadFrom(State, 1))
  /\ last' = Note("worldLoad", 0, "none")
  /\ UNCHANGED <<call, stored, gen, other, held,
                 entitiesLoad, arrayStore, second, codec>>

\* An entityLoad handler that scans the entity again when it is registered.
onEntityLoadRescans(S, e) ==
  IF ~isDatabaseEntity(S.host, e) THEN [S |-> S, threw |-> FALSE]
  ELSE registerEntityItemsNoAssert(
         [S EXCEPT !.databaseEntities = entitiesSet(@, e)], e)

\* The entityLoad handler for entity e, on the state S in which e is loaded.
onEntityLoad(S, e) ==
  IF ~isDatabaseEntity(S.host, e) THEN [S |-> S, threw |-> FALSE]
  ELSE IF SeqHas(S.databaseEntities, e) THEN [S |-> S, threw |-> FALSE]
  ELSE registerEntityItems(
         [S EXCEPT !.databaseEntities = entitiesSet(@, e)], e)

\* The host notifies that entity e is loaded: e was unloaded and comes back
\* into the world, or e is in the world and the notification is a repeat.
EntityLoad(e) ==
  /\ host[e].st \in {"unloaded", "loaded"}
  /\ Tick
  /\ LET r == onEntityLoad([State EXCEPT !.host[e].st = "loaded"], e) IN
       /\ Install(r.S)
       /\ last' = Note("entityLoad", e, IF r.threw THEN "throw" ELSE "none")
  /\ stored' = Void
  /\ UNCHANGED <<worldLoaded, call, gen, other, held,
                 entitiesLoad, arrayStore, second, codec>>

\* An entityRemove handler that forgets every registered entity.
onEntityRemoveForgetsAll(S, removedEntityId) ==
  IF ~SeqHas(S.databaseEntities, removedEntityId) THEN S
  ELSE [S EXCEPT !.databaseEntities = <<>>]

\* The entityRemove handler.
onEntityRemove(S, removedEntityId) ==
  IF ~SeqHas(S.databaseEntities, removedEntityId) THEN S
  ELSE [S EXCEPT !.databaseEntities = SeqWithout(@, removedEntityId)]

\* A loaded entity leaves the world (unloaded, or killed when dies) and the
\* host notifies it.
EntityRemove(e, dies) ==
  /\ host[e].st = "loaded"
  /\ Tick
  /\ Install(onEntityRemove(
       [State EXCEPT !.host[e].st = IF dies THEN "dead" ELSE "unloaded"], e))
  /\ last' = Note("entityRemove", e, "none")
  /\ stored' = Void
  /\ UNCHANGED <<worldLoaded, call, gen, other, held,
                 entitiesLoad, arrayStore, second, codec>>

\* The script is reloaded: a new ItemDatabase is constructed with the same
\* typeId over the same host entities.
Restart ==
  /\ call = Idle
  /\ Tick
  /\ gen < MaxRestarts
  /\ gen' = gen + 1
  /\ databaseEntities' = <<>>
  /\ cachedItems' = <<>>
  /\ itemStorageMap' = <<>>
  /\ worldLoaded' = FALSE
  /\ last' = Note("restart", 0, "none")
  /\ UNCHANGED <<host, call, stored, other, held,
                 entitiesLoad, arrayStore, second, codec>>

\* -------------------------------------------------------------------- Next
Next ==
  \/ \E r \in Records, id \in Ids, spawn \in Spawns :
       SetItem(r, id, spawn, "none")
  \/ SetItemResume("none")
  \/ \E id \in Ids : RemoveItem(id, "none")
  \/ Clear("none")
  \/ WorldLoad
  \/ \E e \in EntityIds : EntityLoad(e)
  \/ \E e \in EntityIds, dies \in BOOLEAN : EntityRemove(e, dies)
  \/ Restart

Spec == Init /\ [][Next]_vars

\* ------------------------------------------------------ a fuller first world
\* A world in which the entity left by an earlier session holds two records.
LeftoverHost ==
  [e \in EntityIds |->
     IF e = 1
       THEN [st |-> "loaded", tag |-> typeId, inv |-> TRUE,
             slots |-> [EmptySlots EXCEPT
                ![1] = ItemStack("dirt", ITEM_PREFIX \o <<"a">> \o ITEM_PREFIX),
                ![2] = ItemStack("dirt", ITEM_PREFIX \o <<"b">> \o ITEM_PREFIX
                                           \o <<"x">>)]]
       ELSE NoEntity]

InitLeftover ==
  /\ host = LeftoverHost
  /\ databaseEntities = <<>>
  /\ cachedItems = <<>>
  /\ itemStorageMap = <<>>
  /\ worldLoaded = FALSE
  /\ call = Idle
  /\ last = Note("init", 0, "none")
  /\ stored = Void
  /\ gen = 0
  /\ steps = 0
  /\ other = NoStore
  /\ held = NoHeld
  /\ entitiesLoad = NoEvents
  /\ arrayStore = NoArrayStore
  /\ second = Idle
  /\ codec = NoCodec

SpecLeftover == InitLeftover /\ [][Next]_vars

\* ------------------------------------------------------- throwing host calls
\* The facade calls over a host whose calls can throw: in each facade call
\* the first host call of one class throws.
NextFaults ==
  \/ \E id \in Ids, spawn \in {"refused", "empty"},
          fault \in {"none", "label", "lookup", "read", "write"} :
       SetItem(ItemStack("dirt", <<"x">>), id, spawn, fault)
  \/ \E fault \in {"none", "lookup", "write"} : SetItemResume(fault)
  \/ \E id \in Ids, fault \in {"none", "lookup", "read", "write"} :
       RemoveItem(id, fault)
  \/ \E fault \in {"none", "remove"} : Clear(fault)
  \/ WorldLoad

SpecFaults == Init /\ [][NextFaults]_vars

\* ------------------------------------------------ two stores on one host
\* A second ItemDatabase, constructed with another typeId in the same script:
\* the same code, so its handlers are those above run on its own maps over
\* the host seen with the two tags exchanged.
otherTypeId == "otherItems"

swapTags(h) ==
  [e \in EntityIds |->
     [h[e] EXCEPT !.tag = IF @ = typeId THEN otherTypeId
                          ELSE IF @ = otherTypeId THEN typeId
                          ELSE @]]

OtherState == [host |-> swapTags(host),
               databaseEntities |-> other.databaseEntities,
               cachedItems |-> other.cachedItems,
               itemStorageMap |-> other.itemStorageMap]

InstallOther(S, c) ==
  /\ host' = swapTags(S.host)
  /\ other' = [databaseEntities |-> S.databaseEntities,
               cachedItems |-> S.cachedItems,
               itemStorageMap |-> S.itemStorageMap,
               call |-> c]

\* setItem of the second store, up to its return or its wait.
OtherSetItem(itemStack, id, spawn) ==
  /\ other.call = Idle
  /\ Tick
  /\ LET S     == OtherState
         S1    == IF getItem(S.cachedItems, id) # <<>>
                    THEN removeItem(S, id, "none").S ELSE S
         stack == setIdentifierData(itemStack, id)
         i     == findEntityWithRoom(S1, 1, "none")
         e     == freshEntity(S1.host)
     IN
       IF i # 0 THEN
         /\ InstallOther([placeInEntity(S1, i, stack, id) EXCEPT
                            !.cachedItems = MapSet(@, id, stack)], Idle)
         /\ last' = Note("otherSetItem", S1.itemStorageMap[i].k, "true")
       ELSE IF spawn # "refused" /\ e # 0 THEN
         /\ InstallOther([S1 EXCEPT !.host[e] =
                            [st |-> "loaded", tag |-> NoTag,
                             inv |-> spawn # "noInventory",
                             slots |-> EmptySlots]],
                         [op |-> "set", id |-> id, stack |-> stack, ent |-> e])
         /\ last' = Note("otherSpawn", e, "none")
       ELSE
         /\ InstallOther(S1, Idle)
         /\ last' = Note("otherSetItem", 0, "false")
  /\ stored' = Void
  /\ UNCHANGED <<databaseEntities, cachedItems, itemStorageMap, worldLoaded,
                 call, gen, held,
                 entitiesLoad, arrayStore, second, codec>>

\* setItem of the second store from the end of its wait to its return.
OtherSetItemResume ==
  /\ other.call # Idle
  /\ steps' = steps
  /\ LET S  == OtherState
         e  == other.call.ent
         tagged == [S EXCEPT !.host[e].tag = typeId]
         ok == hasContainer(S.host, e) /\ firstEmptySlot(S.host[e].slots) = 1
     IN
       /\ IF ~isValid(S.host, e) THEN InstallOther(S, Idle)
          ELSE IF ~ok THEN InstallOther(tagged, Idle)
          ELSE InstallOther([tagged EXCEPT
                 !.host[e].slots[1] = other.call.stack,
                 !.databaseEntities = entitiesSet(@, e),
                 !.itemStorageMap = MapSet(@, e, <<other.call.id>>),
                 !.cachedItems = MapSet(@, other.call.id, other.call.stack)],
                 Idle)
       /\ last' = Note("otherSetItem", e, IF ok THEN "true" ELSE "false")
  /\ stored' = Void
  /\ UNCHANGED <<databaseEntities, cachedItems, itemStorageMap, worldLoaded,
                 call, gen, held,
                 entitiesLoad, arrayStore, second, codec>>

OtherRemoveItem(id) ==
  /\ other.call = Idle
  /\ Tick
  /\ LET r == removeItem(OtherState, id, "none") IN
       /\ InstallOther(r.S, Idle)
       /\ last' = Note("otherRemoveItem", 0, IF r.ret THEN "true" ELSE "false")
  /\ stored' = Void
  /\ UNCHANGED <<databaseEntities, cachedItems, itemStorageMap, worldLoaded,
                 call, gen, held,
                 entitiesLoad, arrayStore, second, codec>>

OtherClear ==
  /\ other.call = Idle
  /\ Tick
  /\ host' = removeEntities(host, other.databaseEntities, 1, "none")
  /\ other' = NoStore
  /\ last' = Note("otherClear", 0, "none")
  /\ stored' = Void
  /\ UNCHANGED <<databaseEntities, cachedItems, itemStorageMap, worldLoaded,
                 call, gen, held,
                 entitiesLoad, arrayStore, second, codec>>

\* What a notification handler of the second store leaves of its maps.
otherAfter(S) == [other EXCEPT !.databaseEntities = S.databaseEntities,
                               !.cachedItems = S.cachedItems,
                               !.itemStorageMap = S.itemStorageMap]

\* The worldLoad notification, delivered to the handler of each store.
WorldLoadBoth ==
  /\ ~worldLoaded
  /\ Tick
  /\ worldLoaded' = TRUE
  /\ Install(worldLoadFrom(State, 1))
  /\ other' = otherAfter(worldLoadFrom(OtherState, 1))
  /\ last' = Note("worldLoad", 0, "none")
  /\ stored' = Void
  /\ UNCHANGED <<call, gen, held,
                 entitiesLoad, arrayStore, second, codec>>

\* The entityLoad notification for e, delivered to the handler of each store.
EntityLoadBoth(e) ==
  /\ host[e].st \in {"unloaded", "loaded"}
  /\ Tick
  /\ LET h == [host EXCEPT ![e].st = "loaded"]
         r == onEntityLoad([State EXCEPT !.host = h], e)
         o == onEntityLoad([OtherState EXCEPT !.host = swapTags(h)], e)
     IN
       /\ Install(r.S)
       /\ other' = otherAfter(o.S)
       /\ last' = Note("entityLoad", e,
                       IF r.threw \/ o.threw THEN "throw" ELSE "none")
  /\ stored' = Void
  /\ UNCHANGED <<worldLoaded, call, gen, held,
                 entitiesLoad, arrayStore, second, codec>>

\* The entityRemove notification for e, delivered to the handler of each store.
EntityRemoveBoth(e, dies) ==
  /\ host[e].st = "loaded"
  /\ Tick
  /\ LET h == [host EXCEPT ![e].st = IF dies THEN "dead" ELSE "unloaded"] IN
       /\ Install(onEntityRemove([State EXCEPT !.host = h], e))
       /\ other' = otherAfter(
                     onEntityRemove([OtherState EXCEPT !.host = swapTags(h)], e))
  /\ last' = Note("entityRemove", e, "none")
  /\ stored' = Void
  /\ UNCHANGED <<worldLoaded, call, gen, held,
                 entitiesLoad, arrayStore, second, codec>>

NextTwo ==
  \/ \E id \in {<<"a">>, <<"b">>}, spawn \in Spawns \ {"occupied"} :
       SetItem(ItemStack("dirt", <<"x">>), id, spawn, "none")
  \/ SetItemResume("none")
  \/ RemoveItem(<<"a">>, "none")
  \/ Clear("none")
  \/ \E id \in {<<"a">>, <<"b">>}, spawn \in Spawns \ {"occupied"} :
       OtherSetItem(ItemStack("stone", <<"x">>), id, spawn)
  \/ OtherSetItemResume
  \/ OtherRemoveItem(<<"a">>)
  \/ OtherClear
  \/ WorldLoadBoth
  \/ \E e \in EntityIds : EntityLoadBoth(e)
  \/ \E e \in EntityIds, dies \in BOOLEAN : EntityRemoveBoth(e, dies)

SpecTwo == Init /\ [][NextTwo]_vars

\* ------------------------------------------------- reads and their callers
\* Labels a caller writes on a stack it was handed.
Labels == {<<"y">>, ITEM_PREFIX \o <<"c">> \o ITEM_PREFIX \o <<"y">>}

\* A getItem that hands out the cached stack itself.
GetItemNoClone(id) ==
  /\ Tick
  /\ LET item == getItem(cachedItems, id) IN
       /\ held' = IF item = <<>> THEN NoHeld
                  ELSE [item |-> item[1], ref |-> <<id>>, id |-> id,
                        by |-> "getItem"]
       /\ last' = Done("getItem", id, IF item = <<>> THEN NoItem ELSE item[1],
                       "none", 0, <<>>, FALSE)
  /\ UNCHANGED <<host, databaseEntities, cachedItems, itemStorageMap,
                 worldLoaded, call, stored, gen, other,
                 entitiesLoad, arrayStore, second, codec>>

\* getItem(id): the caller is handed a new stack (item.clone()), which is
\* no stack of the cache.
GetItem(id) ==
  /\ Tick
  /\ LET item == getItem(cachedItems, id) IN
       /\ held' = IF item = <<>> THEN NoHeld
                  ELSE [item |-> item[1], ref |-> <<>>, id |-> id,
                        by |-> "getItem"]
       /\ last' = Done("getItem", id, IF item = <<>> THEN NoItem ELSE item[1],
                       "none", 0, <<>>, FALSE)
  /\ UNCHANGED <<host, databaseEntities, cachedItems, itemStorageMap,
                 worldLoaded, call, stored, gen, other,
                 entitiesLoad, arrayStore, second, codec>>

\* getAllItems(): the caller takes the i-th stack of the array, which is the
\* stack the cache holds under its id.
GetAllItems(i) ==
  /\ Tick
  /\ i <= Len(getAllItems(cachedItems))
  /\ held' = [item |-> getAllItems(cachedItems)[i],
              ref |-> <<getAllItemIds(cachedItems)[i]>>,
              id |-> getAllItemIds(cachedItems)[i], by |-> "getAllItems"]
  /\ last' = Done("getAllItems", getAllItemIds(cachedItems)[i],
                  getAllItems(cachedItems)[i], "none", 0, <<>>, FALSE)
  /\ UNCHANGED <<host, databaseEntities, cachedItems, itemStorageMap,
                 worldLoaded, call, stored, gen, other,
                 entitiesLoad, arrayStore, second, codec>>

\* getAllItemIds(): a new array of the cache keys; the caller holds no stack.
GetAllItemIds ==
  /\ Tick
  /\ held' = NoHeld
  /\ last' = Done("getAllItemIds", <<>>, NoItem, "none",
                  Len(getAllItemIds(cachedItems)), <<>>, FALSE)
  /\ UNCHANGED <<host, databaseEntities, cachedItems, itemStorageMap,
                 worldLoaded, call, stored, gen, other,
                 entitiesLoad, arrayStore, second, codec>>

\* The caller writes a label on the stack a read handed it: a stack of its
\* own at any later time, a stack of the cache right after the read.  The
\* write shows in the cache when the stack is the cached one.
Mutate(label) ==
  /\ held # NoHeld
  /\ held.ref = <<>> \/ last.op \in {"getItem", "getAllItems"}
  /\ Tick
  /\ LET item == [held.item EXCEPT !.nameTag = label] IN
       /\ held' = [held EXCEPT !.item = item]
       /\ cachedItems' = IF held.ref = <<>> THEN cachedItems
                         ELSE MapSet(cachedItems, held.ref[1], item)
       /\ last' = Done("mutate", held.id, item, "none", 0, <<held.item>>, FALSE)
  /\ stored' = Void
  /\ UNCHANGED <<host, databaseEntities, itemStorageMap, worldLoaded, call,
                 gen, other,
                 entitiesLoad, arrayStore, second, codec>>

NextReads ==
  \/ \E id \in {<<"a">>, <<"b">>}, spawn \in {"refused", "empty"} :
       SetItem(ItemStack("dirt", <<"x">>), id, spawn, "none")
  \/ SetItemResume("none")
  \/ \E id \in {<<"a">>, <<"b">>} : RemoveItem(id, "none")
  \/ Clear("none")
  \/ WorldLoad
  \/ \E id \in {<<"a">>, <<"b">>} : GetItem(id)
  \/ \E i \in 1..ENTITY_INVENTORY_SIZE : GetAllItems(i)
  \/ GetAllItemIds
  \/ \E label \in Labels : Mutate(label)

SpecReads == Init /\ [][NextReads]_vars

\* ------------------------------------------------------ EntitiesLoadEvent
RECURSIVE ObjSet(_, _, _)
\* CALLBACKS[key] = val on an object with integer keys, whose entries are
\* enumerated in ascending key order.
ObjSet(m, key, val) ==
  IF m = <<>> \/ key < m[1].k THEN <<[k |-> key, v |-> val]>> \o m
  ELSE IF m[1].k = key THEN <<[k |-> key, v |-> val]>> \o Tail(m)
  ELSE <<m[1]>> \o ObjSet(Tail(m), key, val)

RECURSIVE invokeAll(_, _)
\* The loop of setEntitiesLoaded: the invocation counts after each callback
\* of the entries m has run once.
invokeAll(m, invoked) ==
  IF m = <<>> THEN invoked
  ELSE invokeAll(Tail(m), [invoked EXCEPT ![m[1].v] = @ + 1])

\* setEntitiesLoaded: every callback runs and is deleted.
setEntitiesLoaded(E) ==
  [E EXCEPT !.ENTITIES_LOADED = TRUE,
            !.invoked = invokeAll(E.CALLBACKS, @),
            !.CALLBACKS = <<>>]

\* The unchanged store, host and callers of the store.
StoreFrame ==
  UNCHANGED <<host, databaseEntities, cachedItems, itemStorageMap,
              worldLoaded, call, last, stored, gen, steps, other, held,
              arrayStore, second, codec>>

\* EntitiesLoad.subscribe(callback of s).
Subscribe(s) ==
  /\ entitiesLoad.key[s] = -1
  /\ LET key == Len(MapKeys(entitiesLoad.CALLBACKS))
         E == [entitiesLoad EXCEPT !.key[s] = key,
                                   !.early[s] = ~entitiesLoad.ENTITIES_LOADED]
     IN entitiesLoad' =
          IF entitiesLoad.ENTITIES_LOADED
            THEN [E EXCEPT !.invoked[s] = @ + 1]
            ELSE [E EXCEPT !.CALLBACKS = ObjSet(@, key, s)]
  /\ StoreFrame

\* EntitiesLoad.unsubscribe(key), by s with the key its subscribe returned.
Unsubscribe(s) ==
  /\ entitiesLoad.key[s] # -1
  /\ ~entitiesLoad.removed[s]
  /\ entitiesLoad' =
       [entitiesLoad EXCEPT !.CALLBACKS = MapDelete(@, entitiesLoad.key[s]),
                            !.removed[s] = TRUE]
  /\ StoreFrame

\* The worldLoad handler of the module: the probe `testfor @e` finds an
\* entity, or it finds none or throws and the handler subscribes to
\* entityLoad.
EventsWorldLoad(found) ==
  /\ ~entitiesLoad.started
  /\ entitiesLoad' =
       IF found THEN setEntitiesLoaded([entitiesLoad EXCEPT !.started = TRUE])
       ELSE [entitiesLoad EXCEPT !.started = TRUE, !.listening = TRUE]
  /\ StoreFrame

\* The entityLoad handler subscribed by the worldLoad handler; it
\* unsubscribes itself.
EventsEntityLoad ==
  /\ entitiesLoad.listening
  /\ entitiesLoad' =
       [setEntitiesLoaded(entitiesLoad) EXCEPT !.listening = FALSE]
  /\ StoreFrame

NextEvents ==
  \/ \E s \in Subscribers : Subscribe(s)
  \/ \E s \in Subscribers : Unsubscribe(s)
  \/ \E found \in BOOLEAN : EventsWorldLoad(found)
  \/ EventsEntityLoad

SpecEvents == Init /\ [][NextEvents]_vars

\* The callers of EntitiesLoad.awaitLoad; the other subscribers call
\* subscribe and unsubscribe.
Awaiters == {1}

\* EntitiesLoad.awaitLoad() by s: it returns at once when the entities are
\* loaded, and else subscribes the resolve function of a new promise and
\* drops the key.  invoked[s] counts how often the promise was resolved.
AwaitLoad(s) ==
  /\ ~entitiesLoad.early[s]
  /\ entitiesLoad.invoked[s] = 0
  /\ LET key == Len(MapKeys(entitiesLoad.CALLBACKS)) IN
       entitiesLoad' =
         IF entitiesLoad.ENTITIES_LOADED
           THEN [entitiesLoad EXCEPT !.invoked[s] = @ + 1]
           ELSE [entitiesLoad EXCEPT !.CALLBACKS = ObjSet(@, key, s),
                                     !.early[s] = TRUE]
  /\ StoreFrame

NextAwait ==
  \/ \E s \in Awaiters : AwaitLoad(s)
  \/ \E s \in Subscribers \ Awaiters : Subscribe(s)
  \/ \E s \in Subscribers \ Awaiters : Unsubscribe(s)
  \/ \E found \in BOOLEAN : EventsWorldLoad(found)
  \/ EventsEntityLoad

\* The host delivers worldLoad, and when the probe found no entity it
\* later delivers an entityLoad.
SpecAwait ==
  /\ Init
  /\ [][NextAwait]_vars
  /\ WF_vars(\E found \in BOOLEAN : EventsWorldLoad(found))
  /\ WF_vars(EventsEntityLoad)

\* ------------------------------------------ the array-cache ItemDatabase
RECURSIVE fetchEntitiesFrom(_, _)
\* fetchEntities: the valid entities from e on that carry the store's tag.
fetchEntitiesFrom(h, e) ==
  IF e > MaxEntities THEN <<>>
  ELSE IF isValid(h, e) /\ h[e].tag = typeId
    THEN <<e>> \o fetchEntitiesFrom(h, e + 1)
  ELSE fetchEntitiesFrom(h, e + 1)

RECURSIVE slotStacks(_, _)
\* The stacks in the slots from i on, in slot order.
slotStacks(slots, i) ==
  IF i > Len(slots) THEN <<>>
  ELSE IF slots[i] = NoItem THEN slotStacks(slots, i + 1)
  ELSE <<slots[i]>> \o slotStacks(slots, i + 1)

RECURSIVE fetchAllItemsFrom(_, _, _, _)
\* The loop of fetchAllItems over the entities arr from index i on, up to
\* its next await of system.waitTicks(1) or to its end (done).
fetchAllItemsFrom(h, arr, i, items) ==
  IF i > Len(arr) THEN [done |-> TRUE, i |-> i, items |-> items]
  ELSE IF ~hasContainer(h, arr[i])
    THEN fetchAllItemsFrom(h, arr, i + 1, items)
  ELSE [done |-> FALSE, i |-> i + 1,
        items |-> items \o slotStacks(h[arr[i]].slots, 1)]

\* The state of the fetch after the loop ran from index i on.
fetchStep(A, h, arr, i, items) ==
  LET r == fetchAllItemsFrom(h, arr, i, items) IN
    IF r.done
      THEN [A EXCEPT !.cachedItems = <<r.items>>, !.fetch = [op |-> "done"]]
      ELSE [A EXCEPT !.fetch = [op |-> "fetch", arr |-> arr, i |-> r.i,
                                items |-> r.items, same |-> TRUE]]

RECURSIVE arrayFilter(_, _)
\* cachedItems.filter of removeItem: stacks without an id stay.
arrayFilter(cache, id) ==
  IF cache = <<>> THEN <<>>
  ELSE IF NoId(getItemId(cache[1])) \/ getItemId(cache[1])[1] # id
    THEN <<cache[1]>> \o arrayFilter(Tail(cache), id)
  ELSE arrayFilter(Tail(cache), id)

RECURSIVE arrayRemoveSlots(_, _, _, _)
\* The slot loop of removeItem from slot j on: each stack carrying id is
\* taken out of its slot and the cache is filtered; when the cache is
\* undefined the call returns true at the first such stack.
arrayRemoveSlots(slots, cache, j, id) ==
  IF j > Len(slots) THEN [slots |-> slots, cache |-> cache, ret |-> FALSE]
  ELSE IF slots[j] = NoItem
         \/ NoId(getItemId(slots[j])) \/ getItemId(slots[j])[1] # id
    THEN arrayRemoveSlots(slots, cache, j + 1, id)
  ELSE IF cache = <<>>
    THEN [slots |-> [slots EXCEPT ![j] = NoItem], cache |-> cache,
          ret |-> TRUE]
  ELSE arrayRemoveSlots([slots EXCEPT ![j] = NoItem],
                        <<arrayFilter(cache[1], id)>>, j + 1, id)

RECURSIVE arrayRemoveFrom(_, _, _, _, _)
\* The entity loop of removeItem over arr from index i on, up to its next
\* await ("await"), to `return true` or to the final `return false`.
arrayRemoveFrom(h, cache, arr, i, id) ==
  IF i > Len(arr) THEN [st |-> "false", i |-> i, host |-> h, cache |-> cache]
  ELSE IF ~hasContainer(h, arr[i])
    THEN arrayRemoveFrom(h, cache, arr, i + 1, id)
  ELSE
    LET r == arrayRemoveSlots(h[arr[i]].slots, cache, 1, id)
        h1 == [h EXCEPT ![arr[i]].slots = r.slots]
    IN [st |-> IF r.ret THEN "true" ELSE "await", i |-> i + 1,
        host |-> h1, cache |-> r.cache]

RECURSIVE arrayGetItemFrom(_, _, _)
\* getItem over a defined cache: <<clone>> of the first stack carrying id
\* with the wrapper stripped, or <<>>.
arrayGetItemFrom(cache, id, i) ==
  IF i > Len(cache) THEN <<>>
  ELSE IF NoId(getItemId(cache[i])) \/ getItemId(cache[i])[1] # id
    THEN arrayGetItemFrom(cache, id, i + 1)
  ELSE <<stripped(cache[i])>>

\* getItem, or <<>> too while the cache is undefined (where getItem throws).
arrayGetItem(A, id) ==
  IF A.cachedItems = <<>> THEN <<>>
  ELSE arrayGetItemFrom(A.cachedItems[1], id, 1)

RECURSIVE arrayRoomFrom(_, _, _)
\* The first loop of setItem: the index of the first entity that is valid
\* with a valid container and an empty slot, or 0.
arrayRoomFrom(h, arr, i) ==
  IF i > Len(arr) THEN 0
  ELSE IF hasContainer(h, arr[i]) /\ firstEmptySlot(h[arr[i]].slots) # 0
    THEN i
  ELSE arrayRoomFrom(h, arr, i + 1)

\* inventoryContainer.addItem: into the first empty slot, if there is one.
addItem(slots, itemStack) ==
  IF firstEmptySlot(slots) = 0 THEN slots
  ELSE [slots EXCEPT ![firstEmptySlot(slots)] = itemStack]

\* cachedItems.push(itemStack), on an array created when undefined.
arrayCachePush(cache, itemStack) ==
  IF cache = <<>> THEN <<<<itemStack>>>> ELSE <<Append(cache[1], itemStack)>>

\* setItem from setIdentifierData on, up to its return or its await of
\* system.waitTicks(10): the host, the store and what `last` records.
arrayPlace(A, h, itemStack, id, spawn, old) ==
  LET stack == setIdentifierData(itemStack, id)
      i == arrayRoomFrom(h, A.databaseEntities[1], 1)
      e == freshEntity(h)
  IN
    IF i # 0 THEN
      [host |-> [h EXCEPT ![A.databaseEntities[1][i]].slots =
                            addItem(@, stack)],
       store |-> [A EXCEPT !.cachedItems = arrayCachePush(@, stack),
                           !.call = Idle],
       last |-> Done("arraySetItem", id, itemStack, "true",
                     A.databaseEntities[1][i], old, FALSE)]
    ELSE IF spawn = "refused" \/ e = 0 THEN
      [host |-> h, store |-> [A EXCEPT !.call = Idle],
       last |-> Done("arraySetItem", id, itemStack, "throw", 0, old, FALSE)]
    ELSE
      [host |-> [h EXCEPT ![e] =
                   [st |-> "loaded", tag |-> NoTag,
                    inv |-> spawn # "noInventory",
                    slots |-> IF spawn = "occupied"
                                THEN [EmptySlots EXCEPT ![1] = Stray]
                                ELSE EmptySlots]],
       store |-> [A EXCEPT !.call = [op |-> "set", id |-> id,
                                     item |-> itemStack, stack |-> stack,
                                     ent |-> e, old |-> old]],
       last |-> Done("arraySpawn", id, itemStack, "none", e, old, FALSE)]

\* The unchanged map-cache store and the other modules.
ArrayFrame ==
  UNCHANGED <<databaseEntities, cachedItems, itemStorageMap, worldLoaded,
              call, stored, gen, other, held, entitiesLoad, second, codec>>

\* The callback subscribed by the constructor, after its two awaits:
\* fetchEntities, then fetchAllItems up to its first await or its end.
ArrayFetchEntities ==
  /\ arrayStore.fetch.op = "subscribed"
  /\ LET arr == fetchEntitiesFrom(host, 1)
         A == [arrayStore EXCEPT !.databaseEntities = <<arr>>]
     IN arrayStore' = IF A.cachedItems # <<>>
                        THEN [A EXCEPT !.fetch = [op |-> "done"]]
                        ELSE fetchStep(A, host, arr, 1, <<>>)
  /\ last' = Note("arrayFetchEntities", 0, "none")
  /\ UNCHANGED <<host, steps>>
  /\ ArrayFrame

\* fetchAllItems resumes after system.waitTicks(1).
ArrayFetchResume ==
  /\ arrayStore.fetch.op = "fetch"
  /\ arrayStore' = fetchStep(arrayStore, host, arrayStore.fetch.arr,
                             arrayStore.fetch.i, arrayStore.fetch.items)
  /\ last' = Note("arrayFetchAllItems", 0, "none")
  /\ UNCHANGED <<host, steps>>
  /\ ArrayFrame

\* The state after the loop of removeItem ran from index i of arr on, for
\* the call c (a removeItem, or a setItem that replaces).
arrayRemoveStep(c, arr, i, spawn) ==
  LET r == arrayRemoveFrom(host, arrayStore.cachedItems, arr, i, c.id)
      A == [arrayStore EXCEPT !.cachedItems = r.cache]
  IN
    IF r.st = "await" THEN
      /\ host' = r.host
      /\ arrayStore' = [A EXCEPT !.call = [c EXCEPT !.arr = arr, !.i = r.i]]
      /\ last' = Done("arrayAwait", c.id, NoItem, "none", 0, c.old, FALSE)
    ELSE IF c.item = NoItem THEN
      /\ host' = r.host
      /\ arrayStore' = [A EXCEPT !.call = Idle]
      /\ last' = Done("arrayRemoveItem", c.id, NoItem, r.st, 0, c.old, FALSE)
    ELSE
      LET p == arrayPlace(A, r.host, c.item, c.id, spawn, c.old) IN
        /\ host' = p.host
        /\ arrayStore' = p.store
        /\ last' = p.last

\* removeItem(id) up to its return or its first await.
ArrayRemoveItem(id) ==
  /\ arrayStore.call = Idle
  /\ Tick
  /\ IF arrayStore.databaseEntities = <<>> THEN
       /\ last' = Done("arrayRemoveItem", id, NoItem, "false", 0, <<>>, FALSE)
       /\ UNCHANGED <<host, arrayStore>>
     ELSE
       arrayRemoveStep([op |-> "remove", id |-> id, item |-> NoItem,
                        old |-> arrayGetItem(arrayStore, id),
                        arr |-> <<>>, i |-> 1],
                       arrayStore.databaseEntities[1], 1, "refused")
  /\ ArrayFrame

\* removeItem, called by the caller or by setItem, resumes after
\* system.waitTicks(1); a setItem goes on to place its stack.
ArrayRemoveResume(spawn) ==
  /\ arrayStore.call # Idle
  /\ arrayStore.call.op = "remove"
  /\ arrayStore.call.item = NoItem => spawn = "refused"
  /\ arrayRemoveStep(arrayStore.call, arrayStore.call.arr, arrayStore.call.i,
                     spawn)
  /\ UNCHANGED steps
  /\ ArrayFrame

\* setItem up to its return, its throw or its first await.
ArraySetItem(itemStack, id, spawn) ==
  /\ arrayStore.call = Idle
  /\ Tick
  /\ IF arrayStore.databaseEntities = <<>> \/ arrayStore.cachedItems = <<>>
     THEN
       /\ last' = Done("arraySetItem", id, itemStack, "throw", 0, <<>>, FALSE)
       /\ UNCHANGED <<host, arrayStore>>
     ELSE IF arrayGetItem(arrayStore, id) # <<>> THEN
       arrayRemoveStep([op |-> "remove", id |-> id, item |-> itemStack,
                        old |-> arrayGetItem(arrayStore, id),
                        arr |-> <<>>, i |-> 1],
                       arrayStore.databaseEntities[1], 1, spawn)
     ELSE
       LET p == arrayPlace(arrayStore, host, itemStack, id, spawn, <<>>) IN
         /\ host' = p.host
         /\ arrayStore' = p.store
         /\ last' = p.last
  /\ ArrayFrame

\* setItem from the end of its wait for the new entity to its return or
\* throw.  The array the fetch iterates sees the push when it is still
\* this.databaseEntities.
ArraySetItemResume ==
  /\ arrayStore.call # Idle
  /\ arrayStore.call.op = "set"
  /\ LET c == arrayStore.call
         e == c.ent
         f == arrayStore.fetch
     IN
       IF ~isValid(host, e) THEN
         /\ host' = host
         /\ arrayStore' = [arrayStore EXCEPT !.call = Idle]
         /\ last' = Done("arraySetItem", c.id, c.item, "throw", e, c.old, FALSE)
       ELSE IF ~host[e].inv THEN
         /\ host' = [host EXCEPT ![e].tag = typeId]
         /\ arrayStore' = [arrayStore EXCEPT !.call = Idle]
         /\ last' = Done("arraySetItem", c.id, c.item, "throw", e, c.old, FALSE)
       ELSE
         /\ host' = [host EXCEPT ![e].tag = typeId,
                                 ![e].slots = addItem(@, c.stack)]
         /\ arrayStore' =
              [arrayStore EXCEPT
                 !.databaseEntities = <<Append(@[1], e)>>,
                 !.cachedItems = arrayCachePush(@, c.stack),
                 !.call = Idle,
                 !.fetch = IF f.op = "fetch" /\ f.same
                             THEN [f EXCEPT !.arr = Append(@, e)] ELSE f]
         /\ last' = Done("arraySetItem", c.id, c.item, "true", e, c.old, FALSE)
  /\ UNCHANGED steps
  /\ ArrayFrame

\* getItem(id): a clone, undefined ("false"), or an error while an array is
\* undefined.
ArrayGetItem(id) ==
  /\ Tick
  /\ last' = IF arrayStore.databaseEntities = <<>>
                \/ arrayStore.cachedItems = <<>>
               THEN Done("arrayGetItem", id, NoItem, "throw", 0, <<>>, FALSE)
             ELSE IF arrayGetItem(arrayStore, id) = <<>>
               THEN Done("arrayGetItem", id, NoItem, "false", 0, <<>>, FALSE)
             ELSE Done("arrayGetItem", id, arrayGetItem(arrayStore, id)[1],
                       "true", 0, <<>>, FALSE)
  /\ UNCHANGED <<host, arrayStore>>
  /\ ArrayFrame

\* A loaded entity leaves the world; the entityRemove handler replaces
\* databaseEntities by an array without it when it is listed.
ArrayEntityRemove(e, dies) ==
  /\ host[e].st = "loaded"
  /\ Tick
  /\ host' = [host EXCEPT ![e].st = IF dies THEN "dead" ELSE "unloaded"]
  /\ arrayStore' =
       IF arrayStore.databaseEntities = <<>>
            \/ ~SeqHas(arrayStore.databaseEntities[1], e)
         THEN arrayStore
         ELSE [arrayStore EXCEPT
                 !.databaseEntities = <<SeqWithout(@[1], e)>>,
                 !.fetch = IF @.op = "fetch" THEN [@ EXCEPT !.same = FALSE]
                           ELSE @]
  /\ last' = Note("arrayEntityRemove", e, "none")
  /\ ArrayFrame

\* An unloaded entity comes back into the world; this model has no handler
\* for it.
ArrayEntityLoad(e) ==
  /\ host[e].st = "unloaded"
  /\ Tick
  /\ host' = [host EXCEPT ![e].st = "loaded"]
  /\ last' = Note("arrayEntityLoad", e, "none")
  /\ UNCHANGED arrayStore
  /\ ArrayFrame

NextArray ==
  \/ ArrayFetchEntities
  \/ ArrayFetchResume
  \/ \E id \in {<<"a">>, <<"b">>}, spawn \in Spawns :
       ArraySetItem(ItemStack("dirt", <<"x">>), id, spawn)
  \/ ArraySetItemResume
  \/ \E id \in {<<"a">>, <<"b">>} : ArrayRemoveItem(id)
  \/ \E spawn \in Spawns : ArrayRemoveResume(spawn)
  \/ \E id \in {<<"a">>, <<"b">>} : ArrayGetItem(id)
  \/ \E e \in EntityIds, dies \in BOOLEAN : ArrayEntityRemove(e, dies)
  \/ \E e \in EntityIds : ArrayEntityLoad(e)

SpecArray == Init /\ [][NextArray]_vars

\* ------------------------------------------------ overlapping setItem calls
\* setItem called while an earlier setItem waits for its new entity, up to
\* its return or to its own await of system.waitTicks(10).
SetItemSecond(itemStack, id, spawn) ==
  /\ call # Idle
  /\ second = Idle
  /\ Tick
  /\ LET old == getItem(cachedItems, id)
         replaced == old # <<>>
         S1    == IF replaced THEN removeItem(State, id, "none").S ELSE State
         stack == setIdentifierData(itemStack, id)
         i     == findEntityWithRoom(S1, 1, "none")
         e     == freshEntity(S1.host)
     IN
       IF i # 0 THEN
         /\ Install([placeInEntity(S1, i, stack, id) EXCEPT
                       !.cachedItems = MapSet(@, id, stack)])
         /\ second' = Idle
         /\ last' = Done("setItem", id, itemStack, "true",
                         S1.itemStorageMap[i].k, old, FALSE)
       ELSE IF spawn # "refused" /\ e # 0 THEN
         /\ Install([S1 EXCEPT !.host[e] =
                       [st |-> "loaded", tag |-> NoTag,
                        inv |-> spawn # "noInventory",
                        slots |-> IF spawn = "occupied"
                                    THEN [EmptySlots EXCEPT ![1] = Stray]
                                    ELSE EmptySlots]])
         /\ second' = [op |-> "set", id |-> id, item |-> itemStack,
                       stack |-> stack, ent |-> e, replaced |-> replaced,
                       old |-> old]
         /\ last' = Done("spawn", id, itemStack, "none", e, old, FALSE)
       ELSE
         /\ Install(S1)
         /\ second' = Idle
         /\ last' = Done("setItem", id, itemStack, "false", 0, old, FALSE)
  /\ stored' = Void
  /\ UNCHANGED <<worldLoaded, call, gen, other, held, entitiesLoad,
                 arrayStore, codec>>

\* The later setItem from the end of its wait to its return.
SetItemSecondResume ==
  /\ second # Idle
  /\ LET e == second.ent
         tagged == [State EXCEPT !.host[e].tag = typeId]
         slot == firstEmptySlot(host[e].slots)
         ok == hasContainer(host, e) /\ slot = 1
     IN
       /\ IF ~isValid(host, e) THEN Install(State)
          ELSE IF ~ok THEN Install(tagged)
          ELSE Install([tagged EXCEPT
                 !.host[e].slots[slot] = second.stack,
                 !.databaseEntities = entitiesSet(@, e),
                 !.itemStorageMap = MapSet(@, e, <<second.id>>),
                 !.cachedItems = MapSet(@, second.id, second.stack)])
       /\ last' = Done("setItem", second.id, second.item,
                       IF ok THEN "true" ELSE "false",
                       IF ok THEN e ELSE 0, second.old, FALSE)
  /\ second' = Idle
  /\ stored' = Void
  /\ UNCHANGED <<worldLoaded, call, gen, steps, other, held, entitiesLoad,
                 arrayStore, codec>>

NextOverlap ==
  \/ \E id \in {<<"a">>, <<"b">>}, spawn \in {"refused", "empty"} :
       SetItem(ItemStack("dirt", <<"x">>), id, spawn, "none")
  \/ SetItemResume("none")
  \/ \E id \in {<<"a">>, <<"b">>}, spawn \in {"refused", "empty"} :
       SetItemSecond(ItemStack("stone", <<"x">>), id, spawn)
  \/ SetItemSecondResume

SpecOverlap == Init /\ [][NextOverlap]_vars

\* ------------------------------------- calls arriving during a setItem wait
\* removeItem called while a setItem waits for its new entity.  removeItem
\* has no await of its own: it runs to its return when it is called.
RemoveItemDuringWait(id) ==
  /\ call # Idle
  /\ Tick
  /\ LET r == removeItem(State, id, "none") IN
       /\ Install(r.S)
       /\ last' = Done("removeItem", id, NoItem,
                       IF r.ret THEN "true" ELSE "false", 0, <<>>, FALSE)
  /\ stored' = Void
  /\ UNCHANGED <<worldLoaded, call, gen, other, held,
                 entitiesLoad, arrayStore, second, codec>>

\* clear() called while a setItem waits for its new entity, which is not
\* in databaseEntities yet.
ClearDuringWait ==
  /\ call # Idle
  /\ Tick
  /\ host' = removeEntities(host, databaseEntities, 1, "none")
  /\ databaseEntities' = <<>>
  /\ cachedItems' = <<>>
  /\ itemStorageMap' = <<>>
  /\ last' = Note("clear", 0, "none")
  /\ stored' = Void
  /\ UNCHANGED <<worldLoaded, call, gen, other, held,
                 entitiesLoad, arrayStore, second, codec>>

NextRun ==
  \/ \E id \in {<<"a">>, <<"b">>}, spawn \in {"refused", "empty"} :
       SetItem(ItemStack("dirt", <<"x">>), id, spawn, "none")
  \/ SetItemResume("none")
  \/ \E id \in {<<"a">>, <<"b">>}, spawn \in {"refused", "empty"} :
       SetItemSecond(ItemStack("stone", <<"x">>), id, spawn)
  \/ SetItemSecondResume
  \/ \E id \in {<<"a">>, <<"b">>} : RemoveItem(id, "none")
  \/ \E id \in {<<"a">>, <<"b">>} : RemoveItemDuringWait(id)
  \/ Clear("none")
  \/ ClearDuringWait
  \/ WorldLoad
  \/ \E e \in EntityIds : EntityLoad(e)
  \/ \E e \in EntityIds, dies \in BOOLEAN : EntityRemove(e, dies)

\* system.waitTicks(10) resolves after ten ticks of the host, whatever else
\* the script does meanwhile: a waiting setItem is resumed.
SpecRun ==
  /\ Init
  /\ [][NextRun]_vars
  /\ WF_vars(SetItemResume("none"))
  /\ WF_vars(SetItemSecondResume)

\* ------------------------------------------------ the codec on any label
\* The characters of labels and ids: one plain character and the two of
\* ITEM_PREFIX.
Chars == {"x", "!", ":"}

\* The strings of at most n characters.
Strings(n) == UNION {[1..k -> Chars] : k \in 0..n}

\* The labels a stack carries when a caller hands it over; the empty one
\* is the unset nameTag.
CodecLabels == Strings(MaxLabel)

\* The ids callers give: not empty, and too short to contain ITEM_PREFIX.
CodecIds == Strings(2) \ {<<>>}

\* The store, the host and the other modules, not touched by the codec.
CodecFrame ==
  UNCHANGED <<host, databaseEntities, cachedItems, itemStorageMap,
              worldLoaded, call, last, stored, gen, steps, other, held,
              entitiesLoad, arrayStore, second>>

\* A caller holds a stack of any label.
InitCodec ==
  /\ host = [e \in EntityIds |-> NoEntity]
  /\ databaseEntities = <<>>
  /\ cachedItems = <<>>
  /\ itemStorageMap = <<>>
  /\ worldLoaded = FALSE
  /\ call = Idle
  /\ last = Note("init", 0, "none")
  /\ stored = <<>>
  /\ gen = 0
  /\ steps = 0
  /\ other = NoStore
  /\ held = NoHeld
  /\ entitiesLoad = NoEvents
  /\ arrayStore = NoArrayStore
  /\ second = Idle
  /\ codec \in {[op |-> "input", item |-> ItemStack("dirt", l),
                 prior |-> <<>>, id |-> <<>>, n |-> 0,
                 out |-> <<>>, got |-> <<>>] : l \in CodecLabels}

\* setIdentifierData(itemStack, {id}) on the stack: prior is the label the
\* stack had, n the number of times it has been labelled.
CodecSetIdentifierData(id) ==
  /\ codec.n < MaxEncodes
  /\ codec' = [codec EXCEPT !.op = "setIdentifierData",
                            !.prior = codec.item.nameTag,
                            !.id = id,
                            !.item = setIdentifierData(codec.item, id),
                            !.n = @ + 1]
  /\ CodecFrame

\* getItemId(itemStack) on the stack: out is what it returns.
CodecGetItemId ==
  /\ codec' = [codec EXCEPT !.op = "getItemId",
                            !.out = getItemId(codec.item)]
  /\ CodecFrame

\* getItem on the stack as a cached one: got is the label of the clone it
\* returns.  Only stacks that setIdentifierData labelled or whose label
\* gave registerEntityItems an id are in the cache.
CodecGetItem ==
  /\ ~NoId(getItemId(codec.item))
  /\ codec' = [codec EXCEPT !.op = "getItem",
                            !.got = stripped(codec.item).nameTag]
  /\ CodecFrame

NextCodec ==
  \/ \E id \in CodecIds : CodecSetIdentifierData(id)
  \/ CodecGetItemId
  \/ CodecGetItem

SpecCodec == InitCodec /\ [][NextCodec]_vars

\* ================================================================== claims
NoDup(s) == \A i, j \in 1..Len(s) : s[i] = s[j] => i = j

\* The label a stored record comes back with: its own label, or the empty
\* label when its own label carried the prefix.
restoredLabel(item) ==
  IF PrefixFree(item.nameTag) THEN item.nameTag ELSE <<>>

SetReturnedTrue == call = Idle /\ last.op = "setItem" /\ last.ret = "true"

\* C1 as stated: right after a setItem(r, {id}) that returned true, with id
\* non-empty and free of the prefix, getItem(id) is r's content under the
\* label r had before the call, whatever that label was.
C1_RoundTripAnyLabel ==
  (SetReturnedTrue /\ last.id # <<>> /\ PrefixFree(last.id))
    => getItem(cachedItems, last.id) = <<last.item>>

\* C1 amended: right after a setItem(r, {id}) that returned true, with id
\* non-empty and free of the prefix, getItem(id) is r's content under r's
\* label when that label does not contain the prefix, and under the empty
\* label when it does.
C1_RoundTrip ==
  (SetReturnedTrue /\ last.id # <<>> /\ PrefixFree(last.id))
    => getItem(cachedItems, last.id) =
         <<ItemStack(last.item.typeId, restoredLabel(last.item))>>

C1_Witness ==
  /\ SetReturnedTrue
  /\ PrefixFree(last.id)
  /\ last.item.nameTag = <<"x">>
  /\ getItem(cachedItems, last.id) = <<last.item>>

\* C2: getAllItemIds() never lists an id twice, and right after a setItem
\* that returned true for an id that was already stored, getItem(id) is the
\* record of this second call and the id is listed once.
C2_UniquenessReplace ==
  /\ NoDup(getAllItemIds(cachedItems))
  /\ (SetReturnedTrue /\ last.replaced)
       => /\ getItem(cachedItems, last.id) =
               <<ItemStack(last.item.typeId, restoredLabel(last.item))>>
          /\ Cardinality({i \in 1..Len(cachedItems) :
                            cachedItems[i].k = last.id}) = 1

\* The first call stored a "dirt" labelled "x", the second a "stone".
C2_Witness ==
  /\ SetReturnedTrue
  /\ last.replaced
  /\ last.old = <<ItemStack("dirt", <<"x">>)>>
  /\ last.item.typeId = "stone"
  /\ getItem(cachedItems, last.id) = <<ItemStack("stone", <<>>)>>

\* C3: removeItem(id) of an id that is not present returns false and leaves
\* getAllItemIds() unchanged; of an id that is present it returns true and
\* getItem(id) finds nothing afterwards; a second removeItem(id) right after
\* one that returned true returns false.
C3_RemovalIdempotence ==
  [][last'.op = "removeItem" =>
       LET id == last'.id IN
         /\ getItem(cachedItems, id) = <<>>
              => /\ last'.ret = "false"
                 /\ getAllItemIds(cachedItems') = getAllItemIds(cachedItems)
         /\ getItem(cachedItems, id) # <<>>
              => /\ last'.ret = "true"
                 /\ getItem(cachedItems', id) = <<>>
         /\ (last.op = "removeItem" /\ last.id = id /\ last.ret = "true")
              => last'.ret = "false"]_vars

Elems(s) == {s[i] : i \in 1..Len(s)}

\* The ids listed in itemStorageMap, over all entities.
IndexedIds == UNION {Elems(itemStorageMap[i].v) : i \in 1..Len(itemStorageMap)}

\* C4: no entity's list in itemStorageMap holds more than
\* ENTITY_INVENTORY_SIZE ids, in any reachable state.
C4_CapacityBound ==
  \A i \in 1..Len(itemStorageMap) :
    Len(itemStorageMap[i].v) <= ENTITY_INVENTORY_SIZE

\* A setItem of a new id found an entity tracked as full and went elsewhere.
C4_Witness ==
  /\ SetReturnedTrue
  /\ ~last.replaced
  /\ \E i \in 1..Len(itemStorageMap) :
       /\ itemStorageMap[i].k # last.ent
       /\ Len(itemStorageMap[i].v) = ENTITY_INVENTORY_SIZE
       /\ ~SeqHas(itemStorageMap[i].v, last.id)

\* C5: an entityRemove notification for a registered entity U removes from
\* getAllItemIds() exactly the ids that were listed under U, none of which
\* getItem finds afterwards, and the handler does not throw.
C5_VanishResilience ==
  [][\A e \in EntityIds :
       (last'.op = "entityRemove" /\ last'.ent = e
          /\ SeqHas(databaseEntities, e))
       => LET lost == Elems(getEntityItemIds(State, e)) IN
            /\ Elems(getAllItemIds(cachedItems'))
                 = Elems(getAllItemIds(cachedItems)) \ lost
            /\ \A id \in lost : getItem(cachedItems', id) = <<>>
            /\ last'.ret # "throw"]_vars

\* C6: when clear() returns, the cache, the index and the entity map are
\* empty; the setItem issued next either fails or waits on an entity the
\* host had not handed out before, and when that entity is valid with a
\* valid, empty container at the end of the wait the call returns true with
\* the record in the first slot of that entity, under a new index entry.
C6_Clear ==
  [][/\ last'.op = "clear"
          => /\ getAllItems(cachedItems') = <<>>
             /\ getAllItemIds(cachedItems') = <<>>
             /\ itemStorageMap' = <<>>
             /\ databaseEntities' = <<>>
     /\ (last.op = "clear" /\ last'.op = "setItem") => last'.ret = "false"
     /\ (last.op = "clear" /\ last'.op = "spawn")
          => host[call'.ent].st = "none"
     /\ (call # Idle /\ last'.op = "setItem" /\ last'.fresh)
          => /\ (/\ hasContainer(host, call.ent)
                 /\ host[call.ent].slots = EmptySlots) => last'.ret = "true"
             /\ last'.ret = "true"
                  => /\ last'.ent = call.ent
                     /\ getItemId(host'[call.ent].slots[1]) = <<call.id>>
                     /\ ~MapHas(itemStorageMap, call.ent)
                     /\ MapGet(itemStorageMap', call.ent) = <<call.id>>]_vars

C6_Witness ==
  /\ SetReturnedTrue
  /\ last.fresh
  /\ gen = 0
  /\ \E e \in EntityIds : e # last.ent /\ host[e].st = "dead"
  /\ getAllItemIds(cachedItems) = <<last.id>>

\* C7: whenever no setItem is suspended, the ids listed in itemStorageMap
\* are exactly the keys of cachedItems.
C7_IndexCacheAgreement ==
  call = Idle => IndexedIds = Elems(getAllItemIds(cachedItems))

\* C8: whenever no setItem is suspended, every id is listed under at most
\* one entity of itemStorageMap, and at most once in that entity's list.
C8_SingleOwner ==
  call = Idle =>
    /\ \A i, j \in 1..Len(itemStorageMap) :
         (i # j) => Elems(itemStorageMap[i].v) \cap Elems(itemStorageMap[j].v) = {}
    /\ \A i \in 1..Len(itemStorageMap) : NoDup(itemStorageMap[i].v)

\* The ids that decode from the slots of the registered, valid entities.
HostIds ==
  UNION { { getItemId(host[e].slots[i])[1] :
              i \in {j \in 1..ENTITY_INVENTORY_SIZE :
                       /\ host[e].slots[j] # NoItem
                       /\ ~NoId(getItemId(host[e].slots[j]))} } :
          e \in {f \in EntityIds : SeqHas(databaseEntities, f) /\ isValid(host, f)} }

\* C9: whenever no setItem is suspended, the keys of cachedItems are exactly
\* the ids that decode from the slots of the registered, valid entities.
C9_CacheReflectsHost ==
  call = Idle => Elems(getAllItemIds(cachedItems)) = HostIds

Recovered == gen >= 1 /\ worldLoaded /\ call = Idle /\ stored # Void

\* C10 as stated: after successful sequential setItem calls with distinct,
\* non-empty, prefix-free ids, a new instance over the same host entities
\* has, once worldLoad is handled, exactly those ids and getItem returns
\* each record as it was handed to setItem, under its original label.
C10_RecoveryAnyLabel ==
  Recovered =>
    /\ Elems(getAllItemIds(cachedItems)) = Elems(MapKeys(stored))
    /\ \A i \in 1..Len(stored) :
         getItem(cachedItems, stored[i].k) = <<stored[i].v>>

\* C10 amended: as stated, except that a record whose label contained the
\* prefix comes back under the empty label.
C10_Recovery ==
  Recovered =>
    /\ Elems(getAllItemIds(cachedItems)) = Elems(MapKeys(stored))
    /\ \A i \in 1..Len(stored) :
         getItem(cachedItems, stored[i].k) =
           <<ItemStack(stored[i].v.typeId, restoredLabel(stored[i].v))>>

C10_Witness ==
  /\ Recovered
  /\ last.op = "worldLoad"
  /\ Len(stored) = 2
  /\ \E i \in 1..Len(stored) : stored[i].v.nameTag = <<"x">>

\* C11: a step of setItem adds or changes a cache entry only for the id of
\* the call, only when the call returns true, and then the cached stack is
\* in a slot of the entity the call wrote to, which is in databaseEntities
\* when the call completes; a setItem that does not return true adds none.
C11_NoPhantomCacheEntry ==
  [][last'.op \in {"setItem", "spawn"} =>
       \A i \in 1..Len(cachedItems') :
         LET k == cachedItems'[i].k
             v == cachedItems'[i].v
         IN (~MapHas(cachedItems, k) \/ MapGet(cachedItems, k) # v)
              => /\ k = last'.id
                 /\ last'.ret = "true"
                 /\ SeqHas(databaseEntities', last'.ent)
                 /\ \E s \in 1..ENTITY_INVENTORY_SIZE :
                      host'[last'.ent].slots[s] = v]_vars

\* A setItem returned false on a new entity without a valid inventory.
C11_Witness ==
  /\ call = Idle
  /\ last.op = "setItem"
  /\ last.ret = "false"
  /\ \E e \in EntityIds : host[e].tag = typeId /\ ~host[e].inv
  /\ ~MapHas(cachedItems, last.id)

\* C12: when a setItem call returns false, cachedItems and itemStorageMap
\* are what they were when the call was issued (for a call that waited on a
\* new entity: when nothing else happened during its wait).
C12_FailureLeavesState ==
  [][(last'.op = "setItem" /\ last'.ret = "false") =>
       IF call = Idle
         THEN /\ cachedItems' = cachedItems
              /\ itemStorageMap' = itemStorageMap
         ELSE last.op = "spawn"
                => /\ cachedItems' = call.cachedItems
                   /\ itemStorageMap' = call.itemStorageMap]_vars

\* C13: a removeItem(id) that finds id in a list of itemStorageMap returns
\* true and leaves id out of cachedItems and out of that list, whether or
\* not the entity, its container and the slot were there; it returns false
\* exactly when no list of itemStorageMap includes id.
C13_RemoveItemResult ==
  [][last'.op = "removeItem" =>
       LET id == last'.id
           i  == findEntityWithItem(itemStorageMap, id, 1)
       IN IF i = 0 THEN last'.ret = "false"
          ELSE /\ last'.ret = "true"
               /\ ~MapHas(cachedItems', id)
               /\ ~SeqHas(MapGet(itemStorageMap', itemStorageMap[i].k), id)]_vars

\* C14: whichever host call throws inside setItem, removeItem or clear, the
\* call does not raise: setItem and removeItem resolve to true or false and
\* clear returns.
C14_NoExceptionPastFacade ==
  [][last'.op \in {"setItem", "removeItem", "clear"}
       => last'.ret # "throw"]_vars

\* C15: when setItem resumes on its new entity, the entity valid with a
\* valid container whose first empty slot is not the first slot, the call
\* raises, and the stack is not written, not listed in itemStorageMap and
\* not cached.
C15_SlotZeroFatal ==
  [][(/\ call # Idle
      /\ last'.op = "setItem"
      /\ hasContainer(host, call.ent)
      /\ firstEmptySlot(host[call.ent].slots) > 1)
       => /\ last'.ret = "throw"
          /\ host'[call.ent].slots = host[call.ent].slots
          /\ itemStorageMap' = itemStorageMap
          /\ cachedItems' = cachedItems]_vars

\* The host accepts unit creation: every entity it handed out is in the
\* world with a valid container that holds no stray stack.
AcceptingHost ==
  \A e \in EntityIds :
    \/ host[e].st = "none"
    \/ /\ hasContainer(host, e)
       /\ \A s \in 1..ENTITY_INVENTORY_SIZE : host[e].slots[s] # Stray

\* Sequential setItem calls with pairwise distinct ids on a store that
\* started empty returned true n times, and nothing but setItem was called.
StoredFromEmpty(n) ==
  /\ gen = 0
  /\ stored # Void
  /\ Len(stored) = n
  /\ AcceptingHost

\* C16: on a store that started empty, with a host that accepts unit
\* creation, a setItem of a new id that waited on its new entity returns
\* true; once ENTITY_INVENTORY_SIZE + 1 calls with distinct ids returned
\* true there are at least 2 registered entities and getAllItemIds() is
\* exactly those ids; a removeItem of one of them then returns true and
\* getAllItemIds() is exactly the ENTITY_INVENTORY_SIZE others.
C16_CapacityOverflow ==
  [][/\ (/\ call # Idle
         /\ \E n \in 0..ENTITY_INVENTORY_SIZE : StoredFromEmpty(n)
         /\ ~MapHas(stored, call.id)
         /\ last'.op = "setItem")
          => last'.ret = "true"
     /\ (StoredFromEmpty(ENTITY_INVENTORY_SIZE + 1) /\ call = Idle)'
          => /\ Len(databaseEntities') >= 2
             /\ Len(getAllItemIds(cachedItems')) = ENTITY_INVENTORY_SIZE + 1
             /\ Elems(getAllItemIds(cachedItems')) = Elems(MapKeys(stored'))
     /\ (/\ StoredFromEmpty(ENTITY_INVENTORY_SIZE + 1)
         /\ call = Idle
         /\ last'.op = "removeItem"
         /\ MapHas(stored, last'.id))
          => /\ last'.ret = "true"
             /\ Len(getAllItemIds(cachedItems')) = ENTITY_INVENTORY_SIZE
             /\ Elems(getAllItemIds(cachedItems'))
                  = Elems(MapKeys(stored)) \ {last'.id}]_vars

\* The last of ENTITY_INVENTORY_SIZE + 1 setItem calls with distinct ids on
\* a store that started empty returned true, with one call left to make.
C16_Witness ==
  /\ SetReturnedTrue
  /\ StoredFromEmpty(ENTITY_INVENTORY_SIZE + 1)
  /\ Len(databaseEntities) = 2
  /\ steps < MaxSteps

RECURSIVE SlotIds(_, _)
\* The ids that decode from the non-empty slots from slot i on, in slot order.
SlotIds(slots, i) ==
  IF i > Len(slots) THEN <<>>
  ELSE IF slots[i] = NoItem \/ NoId(getItemId(slots[i])) THEN SlotIds(slots, i + 1)
  ELSE <<getItemId(slots[i])[1]>> \o SlotIds(slots, i + 1)

\* C17: an entityLoad notification for an entity that carries the store's
\* tag and is not in databaseEntities registers it, makes its list in
\* itemStorageMap the ids that decode from its non-empty slots, in slot
\* order, with a cache entry for each, and leaves every stack whose label
\* gives no id out of the list and out of the cache.
C17_ScanOnAppearance ==
  [][\A e \in EntityIds :
       (/\ last'.op = "entityLoad"
        /\ last'.ent = e
        /\ host[e].tag = typeId
        /\ ~SeqHas(databaseEntities, e))
       => LET ids == SlotIds(host'[e].slots, 1) IN
            /\ SeqHas(databaseEntities', e)
            /\ (IF MapHas(itemStorageMap', e)
                  THEN MapGet(itemStorageMap', e) ELSE <<>>) = ids
            /\ \A id \in Elems(ids) : MapHas(cachedItems', id)
            /\ \A s \in 1..ENTITY_INVENTORY_SIZE :
                 (/\ host'[e].slots[s] # NoItem
                  /\ NoId(getItemId(host'[e].slots[s])))
                 => \A i \in 1..Len(cachedItems') :
                      cachedItems'[i].v # host'[e].slots[s]]_vars

\* C18: an entityLoad notification for an entity that is in databaseEntities
\* leaves databaseEntities, itemStorageMap and cachedItems as they are; the
\* worldLoad scan keeps every entity that is in databaseEntities, with the
\* list it has in itemStorageMap, and when every valid entity carrying the
\* store's tag is in databaseEntities it changes none of the three maps.
C18_DuplicateRejected ==
  [][/\ (last'.op = "entityLoad" /\ SeqHas(databaseEntities, last'.ent))
          => /\ databaseEntities' = databaseEntities
             /\ itemStorageMap' = itemStorageMap
             /\ cachedItems' = cachedItems
     /\ last'.op = "worldLoad"
          => /\ SubSeq(databaseEntities', 1, Len(databaseEntities))
                  = databaseEntities
             /\ \A i \in 1..Len(itemStorageMap) :
                  SeqHas(databaseEntities, itemStorageMap[i].k)
                    => itemStorageMap'[i] = itemStorageMap[i]
             /\ (\A e \in EntityIds :
                   isDatabaseEntity(host, e) => SeqHas(databaseEntities, e))
                  => /\ databaseEntities' = databaseEntities
                     /\ itemStorageMap' = itemStorageMap
                     /\ cachedItems' = cachedItems]_vars

\* A setItem stored a dirt labelled "x" in a new entity, and the host then
\* sent an entityLoad notification for that entity.
C18_Witness ==
  /\ last.op = "entityLoad"
  /\ steps = 2
  /\ SeqHas(databaseEntities, last.ent)
  /\ MapHas(itemStorageMap, last.ent)
  /\ \E id \in Ids :
       /\ MapGet(itemStorageMap, last.ent) = <<id>>
       /\ host[last.ent].slots[1]
            = setIdentifierData(ItemStack("dirt", <<"x">>), id)

\* The steps of the facade calls of the first store, and of the second.
OwnOps == {"setItem", "spawn", "removeItem", "clear"}

OtherOps == {"otherSetItem", "otherSpawn", "otherRemoveItem", "otherClear"}

\* The entities of the host that a step changed, other than by creating them.
Touched == {e \in EntityIds : host[e].st # "none" /\ host'[e] # host[e]}

\* C19: with two stores of distinct typeIds on one host, no entity is in
\* the databaseEntities of both, every entity a store has registered carries
\* that store's tag, and a facade call of a store changes (writes to, tags
\* or removes) only entities that carry its tag or the untagged entity the
\* call itself spawned.
C19_OwnerTagIsolation ==
  [][/\ Elems(databaseEntities') \cap Elems(other'.databaseEntities) = {}
     /\ \A e \in Elems(databaseEntities') : host'[e].tag = typeId
     /\ \A e \in Elems(other'.databaseEntities) : host'[e].tag = otherTypeId
     /\ last'.op \in OwnOps
          => \A e \in Touched :
               \/ host[e].tag = typeId
               \/ call # Idle /\ e = call.ent /\ host[e].tag = NoTag
     /\ last'.op \in OtherOps
          => \A e \in Touched :
               \/ host[e].tag = otherTypeId
               \/ other.call # Idle /\ e = other.call.ent /\ host[e].tag = NoTag
     /\ last'.op \in {"worldLoad", "entityLoad", "entityRemove"}
          => \A e \in EntityIds :
               /\ host'[e].tag = host[e].tag
               /\ host'[e].slots = host[e].slots]_vars

\* Each store has registered an entity of its own holding a record, and
\* the worldLoad notification has been handled by both.
C19_Witness ==
  /\ last.op = "worldLoad"
  /\ \E e, f \in EntityIds :
       /\ e # f
       /\ SeqHas(databaseEntities, e)
       /\ SeqHas(other.databaseEntities, f)
       /\ host[e].slots[1] # NoItem
       /\ host[f].slots[1] # NoItem
       /\ Len(cachedItems) = 1
       /\ Len(other.cachedItems) = 1

\* C20: when the caller writes a label on a stack that getItem(id) handed
\* it, at once or after other operations, the cache is unchanged and
\* getItem(id) returns what it returned before the write.
C20_CloneIsolation ==
  [][(last'.op = "mutate" /\ held.by = "getItem")
       => /\ cachedItems' = cachedItems
          /\ getItem(cachedItems', held.id) = getItem(cachedItems, held.id)]_vars

\* getItem("a") returned the dirt labelled "x" that a setItem stored, the
\* caller labelled its stack "y", and getItem("a") still returns "x".
C20_Witness ==
  /\ last.op = "mutate"
  /\ held = [item |-> ItemStack("dirt", <<"y">>), ref |-> <<>>, id |-> <<"a">>,
             by |-> "getItem"]
  /\ last.old = <<ItemStack("dirt", <<"x">>)>>
  /\ getItem(cachedItems, <<"a">>) = <<ItemStack("dirt", <<"x">>)>>

\* C21: a stack that getItem or getAllItems hands to the caller carries no
\* bookkeeping: its label neither starts with the prefix nor contains the
\* prefix-wrapped id it is stored under.
C21_ReadsHideBookkeeping ==
  (last.op \in {"getItem", "getAllItems"} /\ last.item # NoItem)
    => /\ ~startsWith(last.item.nameTag, ITEM_PREFIX)
       /\ ~includes(last.item.nameTag, ITEM_PREFIX \o last.id \o ITEM_PREFIX)

\* C22: getAllItems and getAllItemIds change nothing, and a label the
\* caller then writes on a stack of the returned array changes neither
\* the three maps nor the host, so getItem of that id returns what it
\* returned before.
C22_SnapshotReads ==
  [][/\ last'.op \in {"getAllItems", "getAllItemIds"}
          => UNCHANGED <<host, databaseEntities, cachedItems, itemStorageMap>>
     /\ (last'.op = "mutate" /\ held.by = "getAllItems")
          => /\ UNCHANGED <<host, databaseEntities, cachedItems,
                            itemStorageMap>>
             /\ getItem(cachedItems', held.id) = getItem(cachedItems, held.id)
    ]_vars

\* C23: getAllItems, getAllItemIds, setItem and clear called before the
\* worldLoad notification was processed raise an error instead of
\* returning a result.
C23_NotReady ==
  [][(~worldLoaded /\ last'.op \in {"getAllItems", "getAllItemIds",
                                     "setItem", "spawn", "clear"})
       => last'.ret = "throw"]_vars

\* C24: no callback runs twice, and once the entities are loaded every
\* callback that was subscribed before and not unsubscribed with its own
\* key has run exactly once.
C24_Delivery ==
  \A s \in Subscribers :
    /\ entitiesLoad.invoked[s] <= 1
    /\ (entitiesLoad.ENTITIES_LOADED /\ entitiesLoad.early[s]
          /\ ~entitiesLoad.removed[s])
         => entitiesLoad.invoked[s] = 1

\* C25: in the array-cache model, removeItem(id) of an id that getItem(id)
\* found when it was called resolves to true, a removeItem that resolves to
\* true leaves getItem(id) undefined, and no removeItem throws.
C25_ArrayRemoveItem ==
  [][last'.op = "arrayRemoveItem"
       => /\ last'.replaced => last'.ret = "true"
          /\ last'.ret = "true" => arrayGetItem(arrayStore', last'.id) = <<>>
    ]_vars

\* C26: an entityLoad notification for an entity that carries the store's
\* tag and is not in databaseEntities, whether new to the store or
\* registered before and removed since, does not throw, puts the entity in
\* databaseEntities, and leaves it a list in itemStorageMap holding
\* exactly the ids its slots decode to.
C26_Reappearance ==
  [][\A e \in EntityIds :
       (/\ last'.op = "entityLoad"
        /\ last'.ent = e
        /\ host[e].tag = typeId
        /\ ~SeqHas(databaseEntities, e))
       => /\ last'.ret # "throw"
          /\ SeqHas(databaseEntities', e)
          /\ Elems(getEntityItemIds(State', e))
               = Elems(SlotIds(host'[e].slots, 1))]_vars

RECURSIVE firstWithRoom(_, _)
\* The first entity of databaseEntities from index i on, in registration
\* order, that has fewer than ENTITY_INVENTORY_SIZE ids listed, or 0.
firstWithRoom(S, i) ==
  IF i > Len(S.databaseEntities) THEN 0
  ELSE IF Len(getEntityItemIds(S, S.databaseEntities[i]))
            < ENTITY_INVENTORY_SIZE
    THEN S.databaseEntities[i]
  ELSE firstWithRoom(S, i + 1)

Usable(i) ==
  LET e == itemStorageMap[i].k IN
    /\ Len(getEntityItemIds(State, e)) < ENTITY_INVENTORY_SIZE
    /\ SeqHas(databaseEntities, e)
    /\ hasContainer(host, e)
    /\ firstEmptySlot(host[e].slots) # 0

C28_TargetVanished ==
  [][(call # Idle /\ last'.op = "setItem" /\ ~isValid(host, call.ent))
       => /\ last'.ret = "false"
          /\ UNCHANGED <<host, databaseEntities, itemStorageMap, cachedItems>>
          /\ ~SeqHas(databaseEntities', call.ent)
          /\ ~MapHas(itemStorageMap', call.ent)]_vars

\* A setItem spawned an entity, the entity left the world, and the call
\* has returned false: the entity carries no tag.
C28_Witness ==
  /\ steps = 2
  /\ call = Idle
  /\ last.op = "setItem"
  /\ last.ret = "false"
  /\ \E e \in EntityIds :
       /\ host[e].st \in {"dead", "unloaded"}
       /\ host[e].tag = NoTag
       /\ host[e].slots = EmptySlots

\* C29: clear() ends with the three maps empty, and a failure to remove one
\* registered entity does not keep it from removing the others: at most
\* one entity that was registered and valid is still in the world.
C29_ClearBestEffort ==
  [][last'.op = "clear"
       => /\ databaseEntities' = <<>>
          /\ itemStorageMap' = <<>>
          /\ cachedItems' = <<>>
          /\ Cardinality({e \in Elems(databaseEntities) :
                            isValid(host, e) /\ isValid(host', e)}) <= 1
    ]_vars

\* The entities that list id in itemStorageMap, and the slots of
\* registered entities that hold a stack labelled with id.
ListsOf(id) ==
  {i \in 1..Len(itemStorageMap) : SeqHas(itemStorageMap[i].v, id)}

SlotsOf(id) ==
  {p \in Elems(databaseEntities) \X (1..ENTITY_INVENTORY_SIZE) :
     /\ host[p[1]].slots[p[2]] # NoItem
     /\ getItemId(host[p[1]].slots[p[2]]) = <<id>>}

\* C30: once no setItem call is suspended, every cached id is in the list
\* of exactly one entity, once, and exactly one slot of the registered
\* entities holds a stack labelled with that id.
C30_OverlappingSetItem ==
  (call = Idle /\ second = Idle)
    => \A i \in 1..Len(cachedItems) :
         LET id == cachedItems[i].k IN
           /\ Cardinality(ListsOf(id)) = 1
           /\ \A j \in ListsOf(id) :
                Cardinality({n \in 1..Len(itemStorageMap[j].v) :
                               itemStorageMap[j].v[n] = id}) = 1
           /\ Cardinality(SlotsOf(id)) = 1

\* C31: a worldLoad or entityLoad notification changes the record of no id
\* that is in the cache: for every id cached before the notification,
\* getItem(id) returns after it what it returned before.
C31_ScansKeepCache ==
  [][last'.op \in {"worldLoad", "entityLoad"}
       => \A i \in 1..Len(cachedItems) :
            getItem(cachedItems', cachedItems[i].k)
              = getItem(cachedItems, cachedItems[i].k)]_vars

\* C32: an entityRemove notification for entity e takes e out of
\* databaseEntities and leaves every other entry of databaseEntities, every
\* list of itemStorageMap, every cache entry and every slot and tag of the
\* host as they are; when e is not in databaseEntities it changes none of
\* the three maps.
C32_VanishFrame ==
  [][last'.op = "entityRemove"
       => /\ databaseEntities' = SeqWithout(databaseEntities, last'.ent)
          /\ itemStorageMap' = itemStorageMap
          /\ cachedItems' = cachedItems
          /\ \A f \in EntityIds :
               /\ host'[f].slots = host[f].slots
               /\ host'[f].tag = host[f].tag
               /\ f # last'.ent => host'[f] = host[f]
          /\ ~SeqHas(databaseEntities, last'.ent)
               => databaseEntities' = databaseEntities]_vars

\* Two entities were registered, each with a record in its list and in the
\* cache, and the host has reported that one of them left the world: its
\* list is still in itemStorageMap, and the other entity is registered.
C32_Witness ==
  /\ last.op = "entityRemove"
  /\ ~SeqHas(databaseEntities, last.ent)
  /\ MapHas(itemStorageMap, last.ent)
  /\ MapGet(itemStorageMap, last.ent) # <<>>
  /\ \E f \in EntityIds :
       /\ f # last.ent
       /\ SeqHas(databaseEntities, f)
       /\ MapHas(itemStorageMap, f)
       /\ MapGet(itemStorageMap, f) # <<>>
  /\ cachedItems # <<>>

\* C33: once the worldLoad scan has run, whenever a setItem call has
\* completed, with true or with false, every valid entity of the host that
\* carries the store's tag is in databaseEntities: a call whose new entity
\* fails (no valid inventory, no empty slot, first empty slot not 0) leaves
\* no tagged entity unregistered.
C33_NoLeakedEntity ==
  (worldLoaded /\ call = Idle /\ last.op = "setItem")
    => \A e \in EntityIds :
         isDatabaseEntity(host, e) => SeqHas(databaseEntities, e)

\* C34: setItem overwrites no occupied slot.  Every stack that is in a slot
\* of an entity of the host before a step of a setItem call (up to its wait,
\* or from its wait on) is in that slot after it, whether its label decodes
\* to an indexed id or to none, unless its label decodes to the id of the
\* call and the call replaces that record: then the slot is empty or holds
\* the stack of the call.
C34_NoOverwrite ==
  [][last'.op \in {"setItem", "spawn"}
       => \A e \in EntityIds : \A s \in 1..ENTITY_INVENTORY_SIZE :
            host[e].slots[s] # NoItem
              => \/ host'[e].slots[s] = host[e].slots[s]
                 \/ /\ last'.replaced
                    /\ getItemId(host[e].slots[s]) = <<last'.id>>
                    /\ host'[e].slots[s] \in
                         {NoItem, setIdentifierData(last'.item, last'.id)}]_vars

\* A setItem found a registered, valid entity whose slots are all taken
\* while its list is shorter than the inventory size, skipped it and
\* spawned an entity: the slots of the full entity are as they were.
C34_Witness ==
  /\ last.op = "spawn"
  /\ call # Idle
  /\ \E e \in EntityIds :
       /\ e # call.ent
       /\ SeqHas(databaseEntities, e)
       /\ isValid(host, e)
       /\ hasContainer(host, e)
       /\ MapHas(itemStorageMap, e)
       /\ Len(MapGet(itemStorageMap, e)) < ENTITY_INVENTORY_SIZE
       /\ firstEmptySlot(host[e].slots) = 0
       /\ itemStorageMap[1].k = e

\* C35: whenever no setItem call is suspended, itemStorageMap has an entry
\* for an entity if and only if databaseEntities has one.
C35_SameUnits ==
  call = Idle
    => \A e \in EntityIds :
         MapHas(itemStorageMap, e) <=> SeqHas(databaseEntities, e)

\* The label L contains ITEM_PREFIX somewhere.
Carries(L) ==
  \E i \in 1..Len(L) :
    /\ i + Len(ITEM_PREFIX) - 1 <= Len(L)
    /\ SubSeq(L, i, i + Len(ITEM_PREFIX) - 1) = ITEM_PREFIX

\* C36: for a non-empty id without the prefix and a stack of prior label L,
\* setIdentifierData writes the label PREFIX + id + PREFIX + L', where L'
\* is L when L does not contain the prefix and is empty when it does;
\* getItemId of that label is id and getItem strips it to L'; a stack
\* labelled a second time under a new id carries PREFIX + id' + PREFIX; and
\* getItemId gives no id for a label that is unset or does not start with
\* the prefix.
C36_LabelCodec ==
  LET kept == IF Carries(codec.prior) THEN <<>> ELSE codec.prior
      name == codec.item.nameTag
  IN
    /\ codec.n > 0 =>
         /\ name = ITEM_PREFIX \o codec.id \o ITEM_PREFIX \o kept
         /\ codec.op = "getItemId" => codec.out = <<codec.id>>
         /\ codec.op = "getItem" => codec.got = kept
    /\ codec.n > 1 => name = ITEM_PREFIX \o codec.id \o ITEM_PREFIX
    /\ (/\ codec.op = "getItemId"
        /\ \/ name = <<>>
           \/ Len(name) < Len(ITEM_PREFIX)
           \/ SubSeq(name, 1, Len(ITEM_PREFIX)) # ITEM_PREFIX)
         => codec.out = <<>>

\* A stack whose label held the prefix after an "x" was labelled under one
\* id and then under another, and getItem has stripped the second label:
\* nothing of the first wrapper or of the caller's label is left.
C36_Witness ==
  /\ codec.op = "getItem"
  /\ codec.n = 2
  /\ codec.id = <<"!", "!">>
  /\ codec.item.nameTag = ITEM_PREFIX \o <<"!", "!">> \o ITEM_PREFIX
  /\ Carries(codec.prior)
  /\ codec.got = <<>>

\* C37: every setItem and removeItem call completes with a boolean: a
\* completed call has returned true or false, and a setItem that waits for
\* its new entity is eventually resumed and returns, whatever
\* notifications, clear() calls and other setItem and removeItem calls
\* arrive during its wait.
C37_RunToCompletion ==
  /\ [][last'.op \in {"setItem", "removeItem"}
          => last'.ret \in {"true", "false"}]_vars
  /\ (call # Idle)
       ~> (call = Idle /\ last.op = "setItem" /\ last.ret \in {"true", "false"})
  /\ (second # Idle)
       ~> (second = Idle /\ last.op = "setItem"
             /\ last.ret \in {"true", "false"})

\* A setItem spawned entity 1 and waited; during its wait a second setItem
\* stored a record in entity 2 and clear() removed that entity and emptied
\* the maps; the first call then resumed and returned true with its record
\* in entity 1.
C37_Witness ==
  /\ steps = 3
  /\ call = Idle
  /\ second = Idle
  /\ last.op = "setItem"
  /\ last.ret = "true"
  /\ last.ent = 1
  /\ host[2].st = "dead"
  /\ host[2].tag = typeId
  /\ databaseEntities = <<1>>
  /\ ~MapHas(itemStorageMap, 2)
  /\ host[1].slots[1] = setIdentifierData(last.item, last.id)

\* The subscription of s is pending: s subscribed before the entities were
\* loaded, has not unsubscribed, and the entities are not loaded yet.
Pending(s) ==
  /\ entitiesLoad.key[s] # -1
  /\ entitiesLoad.early[s]
  /\ ~entitiesLoad.removed[s]
  /\ ~entitiesLoad.ENTITIES_LOADED

\* C38: two subscriptions that are both pending never have the same key.
C38_DistinctKeys ==
  \A s, t \in Subscribers :
    (s # t /\ Pending(s) /\ Pending(t))
      => entitiesLoad.key[s] # entitiesLoad.key[t]

\* C39: ENTITIES_LOADED stays true once it is true; a callback subscribed
\* while it is true has run exactly once and is not kept in CALLBACKS; a
\* promise of awaitLoad is not resolved while ENTITIES_LOADED is false; and,
\* the host delivering worldLoad and then an entityLoad when the probe found
\* no entity, every promise of awaitLoad is eventually resolved.
C39_Readiness ==
  /\ [][entitiesLoad.ENTITIES_LOADED => entitiesLoad'.ENTITIES_LOADED]_vars
  /\ [](\A s \in Subscribers \ Awaiters :
          (entitiesLoad.key[s] # -1 /\ ~entitiesLoad.early[s])
            => /\ entitiesLoad.invoked[s] = 1
               /\ \A i \in 1..Len(entitiesLoad.CALLBACKS) :
                    entitiesLoad.CALLBACKS[i].v # s)
  /\ [](\A s \in Awaiters :
          entitiesLoad.invoked[s] > 0 => entitiesLoad.ENTITIES_LOADED)
  /\ \A s \in Awaiters :
       entitiesLoad.early[s] ~> (entitiesLoad.invoked[s] = 1)

====
